---------------------------- MODULE Spec2Model ----------------------------
(***************************************************************************)
(* K-Studio: the generation-orchestration layer of the browser front-end.  *)
(*                                                                         *)
(* Two layers are modelled, each from its source:                          *)
(*   - the model gateway (services/geminiService.ts, kept in               *)
(*     src/unnamed/part_000): editImage, generateLookbook,                 *)
(*     generateImageEditsBatch, generateImageFromText, generateVideo and   *)
(*     handleApiError;                                                     *)
(*   - the orchestrator (src/App.tsx): the React state of App and its      *)
(*     handlers, each asynchronous handler cut at its await points.        *)
(*                                                                         *)
(* Every string the code builds or takes apart (prompts, messages, base64  *)
(* payloads) is a sequence of tokens: concatenation is \o, and the empty   *)
(* sequence stands for null and for "", which the code never tells apart   *)
(* (it only tests such values for truthiness).  A data URL                 *)
(* data:<mime>;base64,<payload> is the pair <<mime, payload>> and a null   *)
(* URL is <<>>.  A nullable object is None or Some(object).  Names drawn   *)
(* from a fixed enumeration (keys, states) are strings, NULL when absent.  *)
(***************************************************************************)
EXTENDS Integers, Sequences, FiniteSets, TLC

NULL == "null"
None == <<>>
Some(x) == <<x>>

(***************************************************************************)
(* Bounds of the model.                                                    *)
(***************************************************************************)
\* longest imageParts list handed to editImage in the gateway harness
MaxImages == 3
\* most done=false answers a video job gives before it reports done
MaxPolls == 2

(***************************************************************************)
(* Small helpers.                                                          *)
(***************************************************************************)
Range(s) == {s[i] : i \in 1..Len(s)}

SeqsUpTo(S, n) == UNION {[1..k -> S] : k \in 0..n}

\* JavaScript truthiness of a string | null value
Truthy(x) == x # <<>>

(***************************************************************************)
(* Gateway: handleApiError (part_000 13-36).                               *)
(* A thrown value is [isError, raw, json]: raw is the Error's message,     *)
(* json what JSON.parse yields for the text from its first "{" on: NULL    *)
(* when that does not parse, else a record that may hold an error object.  *)
(***************************************************************************)
MsgRateLimit == <<"You've likely exceeded the request limit. Please wait a moment before trying again.">>
MsgServer == <<"An unexpected server error occurred. This might be a temporary issue. Please try again in a few moments.">>
MsgUnknownApi == <<"An unknown error occurred while communicating with the API.">>

PlainError(m) == [isError |-> TRUE, raw |-> m, json |-> None]

\* a variant of handleApiError that looks for the server condition before
\* the rate limit
handleApiErrorServerFirst(error) ==
    IF error.isError
    THEN IF error.json # None /\ error.json[1].error # None
            /\ Truthy(error.json[1].error[1].message)
         THEN LET e == error.json[1].error[1]
              IN IF e.code = 500 \/ e.status = "UNKNOWN" THEN MsgServer
                 ELSE IF e.status = "RESOURCE_EXHAUSTED" THEN MsgRateLimit
                      ELSE e.message
         ELSE error.raw
    ELSE MsgUnknownApi

\* json is None or Some([error |-> None or Some([message, status, code])])
handleApiError(error) ==
    IF error.isError
    THEN IF error.json # None /\ error.json[1].error # None
            /\ Truthy(error.json[1].error[1].message)
         THEN LET e == error.json[1].error[1]
              IN IF e.status = "RESOURCE_EXHAUSTED" THEN MsgRateLimit
                 ELSE IF e.code = 500 \/ e.status = "UNKNOWN" THEN MsgServer
                      ELSE e.message
         ELSE error.raw
    ELSE MsgUnknownApi

(***************************************************************************)
(* Gateway: editImage (part_000 67-147).                                   *)
(***************************************************************************)
MaskWrapPrefix == "Apply the following instruction only to the masked area of the image: \""
MaskWrapSuffix == "\". Preserve the unmasked area."
MsgNoImage == <<"The model did not return an image. It might have refused the request. Please try a different image or prompt.">>

InlinePart(img) == [inlineData |-> [data |-> img.base64, mimeType |-> img.mimeType]]
MaskPart(maskBase64) == [inlineData |-> [data |-> maskBase64, mimeType |-> "image/png"]]
TextPart(t) == [text |-> t]

IsTextPart(p) == "text" \in DOMAIN p
IsInlinePart(p) == "inlineData" \in DOMAIN p

\* a variant of EditImageFullPrompt that wraps the prompt whether or not a
\* mask is given
EditImageFullPromptAlwaysWrapped(prompt, maskBase64) ==
    <<MaskWrapPrefix>> \o prompt \o <<MaskWrapSuffix>>

\* lines 73-80
EditImageFullPrompt(prompt, maskBase64) ==
    IF Truthy(maskBase64) THEN <<MaskWrapPrefix>> \o prompt \o <<MaskWrapSuffix>>
    ELSE prompt

\* lines 84-88: the primary image is pushed first
EditImagePrimaryParts(imageParts) ==
    IF Len(imageParts) > 0 THEN <<InlinePart(imageParts[1])>> ELSE <<>>

\* lines 98-104: imageParts.slice(1).forEach(push)
EditImageRestParts(imageParts) ==
    IF Len(imageParts) > 1
    THEN [i \in 1..(Len(imageParts) - 1) |-> InlinePart(imageParts[i + 1])]
    ELSE <<>>

\* a variant of EditImageParts that puts the mask after all the images
EditImagePartsMaskLast(prompt, imageParts, maskBase64) ==
    EditImagePrimaryParts(imageParts)
    \o EditImageRestParts(imageParts)
    \o (IF Truthy(maskBase64) THEN <<MaskPart(maskBase64)>> ELSE <<>>)
    \o <<TextPart(EditImageFullPrompt(prompt, maskBase64))>>

\* lines 73-107: the request parts, in push order
EditImageParts(prompt, imageParts, maskBase64) ==
    EditImagePrimaryParts(imageParts)
    \o (IF Truthy(maskBase64) THEN <<MaskPart(maskBase64)>> ELSE <<>>)
    \o EditImageRestParts(imageParts)
    \o <<TextPart(EditImageFullPrompt(prompt, maskBase64))>>

(***************************************************************************)
(* A response of generateContent is [throws, parts, finishReason,          *)
(* safetyRatings]: throws is Some(error) when the call rejects, parts is   *)
(* candidates[0].content.parts (empty when absent), safetyRatings the      *)
(* list of [category, blocked] of the candidate (empty when absent).       *)
(***************************************************************************)
NoUrl == <<>>
DataUrl(mimeType, data) == <<mimeType, data>>
NoContent == [imageUrl |-> NoUrl, text |-> <<>>]

\* lines 117-128: fold the response parts into {imageUrl, text}
RECURSIVE FoldResponseParts(_, _)
FoldResponseParts(parts, acc) ==
    IF parts = <<>> THEN acc
    ELSE LET p == Head(parts)
             next == IF IsTextPart(p) /\ Truthy(p.text)
                     THEN [acc EXCEPT !.text =
                              IF Truthy(acc.text) THEN acc.text \o <<"\n">> \o p.text
                              ELSE p.text]
                     ELSE IF IsInlinePart(p)
                          THEN [acc EXCEPT !.imageUrl =
                                   DataUrl(p.inlineData.mimeType, p.inlineData.data)]
                          ELSE acc
         IN FoldResponseParts(Tail(parts), next)

\* a variant of BlockedCategories that lists every rated category
RECURSIVE RatedCategories(_)
RatedCategories(safetyRatings) ==
    IF safetyRatings = <<>> THEN <<>>
    ELSE LET rest == RatedCategories(Tail(safetyRatings))
         IN <<Head(safetyRatings).category>>
            \o (IF rest # <<>> THEN <<", ">> ELSE <<>>) \o rest

\* line 136: safetyRatings?.filter(r => r.blocked).map(r => r.category).join(', ')
RECURSIVE BlockedCategories(_)
BlockedCategories(safetyRatings) ==
    IF safetyRatings = <<>> THEN <<>>
    ELSE LET rest == BlockedCategories(Tail(safetyRatings))
         IN IF Head(safetyRatings).blocked
            THEN <<Head(safetyRatings).category>>
                 \o (IF rest # <<>> THEN <<", ">> ELSE <<>>) \o rest
            ELSE rest

MsgSafety(blockedCategories) ==
    <<"The request was blocked for safety reasons. Categories: ">>
    \o (IF Truthy(blockedCategories) THEN blockedCategories ELSE <<"Unknown">>)
    \o <<". Please modify your prompt or image.">>

\* lines 109-146: what the promise of editImage settles to for a response
EditImageSettle(response) ==
    IF response.throws # None
    THEN [ok |-> FALSE, message |-> handleApiError(response.throws[1]), content |-> NoContent]
    ELSE LET result == FoldResponseParts(response.parts, NoContent)
         IN IF ~Truthy(result.imageUrl)
            THEN [ok |-> FALSE,
                  message |-> handleApiError(PlainError(
                      IF response.finishReason = "SAFETY"
                      THEN MsgSafety(BlockedCategories(response.safetyRatings))
                      ELSE MsgNoImage)),
                  content |-> NoContent]
            ELSE [ok |-> TRUE, message |-> <<>>, content |-> result]

(***************************************************************************)
(* Gateway: generateLookbook (part_000 149-177) and                        *)
(* generateImageEditsBatch (part_000 180-205).                             *)
(* Both start their editImage calls together and await Promise.all.        *)
(* settled[i] is what sub-call i settles to; order lists the sub-calls in  *)
(* the order in which they have settled so far.                            *)
(***************************************************************************)
\* the fixed number of sub-calls of generateImageEditsBatch (line 186)
BatchCount == 4
\* the largest numImages the lookbook offers (App.tsx 86)
MaxNumImages == 4

MsgNoLookbook == <<"Failed to generate any images for the lookbook. The model may have refused the request.">>
MsgNoVariations == <<"Failed to generate any image variations. The model may have refused the request.">>

\* a variant of PromiseAll whose values are in the order the promises settled
PromiseAllCompletionOrder(n, settled, order) ==
    LET rejected == {k \in 1..Len(order) : ~settled[order[k]].ok}
    IN IF rejected # {}
       THEN [state |-> "rejected", values |-> <<>>,
             message |-> settled[order[CHOOSE k \in rejected : \A j \in rejected : k <= j]].message]
       ELSE IF Len(order) = n
            THEN [state |-> "fulfilled", message |-> <<>>,
                  values |-> [k \in 1..n |-> settled[order[k]].content]]
            ELSE [state |-> "pending", message |-> <<>>, values |-> <<>>]

\* Promise.all over n promises: rejected with the reason of the first promise
\* to reject, fulfilled (values in request order) once all have fulfilled
PromiseAll(n, settled, order) ==
    LET rejected == {k \in 1..Len(order) : ~settled[order[k]].ok}
    IN IF rejected # {}
       THEN [state |-> "rejected", values |-> <<>>,
             message |-> settled[order[CHOOSE k \in rejected : \A j \in rejected : k <= j]].message]
       ELSE IF Len(order) = n
            THEN [state |-> "fulfilled", message |-> <<>>,
                  values |-> [i \in 1..n |-> settled[i].content]]
            ELSE [state |-> "pending", message |-> <<>>, values |-> <<>>]

\* results.map(r => r.imageUrl).filter(url => !!url)
RECURSIVE ImageUrlsOf(_)
ImageUrlsOf(results) ==
    IF results = <<>> THEN <<>>
    ELSE (IF Truthy(Head(results).imageUrl) THEN <<Head(results).imageUrl>> ELSE <<>>)
         \o ImageUrlsOf(Tail(results))

\* lines 160-176 and 190-204: the batch promise, given what has settled
BatchSettle(emptyMessage, n, settled, order) ==
    LET all == PromiseAll(n, settled, order)
    IN IF all.state = "pending" THEN [state |-> "pending", message |-> <<>>, images |-> <<>>]
       ELSE IF all.state = "rejected"
            THEN [state |-> "rejected", message |-> all.message, images |-> <<>>]
            ELSE LET imageUrls == ImageUrlsOf(all.values)
                 IN IF imageUrls = <<>>
                    THEN [state |-> "rejected", message |-> emptyMessage, images |-> <<>>]
                    ELSE [state |-> "fulfilled", message |-> <<>>, images |-> imageUrls]

(***************************************************************************)
(* Gateway: generateVideo (part_000 238-293).                              *)
(* An operation answer is [throws, done, error, uri]: throws is            *)
(* Some(error) when the request rejects, error is None or Some(message)    *)
(* (the message empty when it is no string), uri the response's first      *)
(* video uri, empty when absent.  v is the call's local state.             *)
(***************************************************************************)
MsgVideoInit == <<"Initializing video generation...">>
MsgVideoPolling == <<"Polling for results, this may take a few minutes...">>
MsgVideoFailed == <<"Video generation failed during operation.">>
MsgVideoNoLink == <<"Video generation completed, but no download link was found.">>
NoOperation == [done |-> FALSE, error |-> None, uri |-> <<>>]

\* lines 244-264: the call has notified "initializing" and awaits the submission
VideoStart ==
    [pc |-> "submitting", operation |-> NoOperation, progress |-> <<MsgVideoInit>>,
     waits |-> 0, queries |-> 0, notDone |-> 0, sawError |-> FALSE,
     extracted |-> FALSE, result |-> <<>>]

MsgVideoUnknown == <<"An unknown error occurred during video generation.">>

\* lines 285-292: the catch block
VideoReject(v, error) ==
    [v EXCEPT !.pc = "rejected",
              !.result = IF error.isError THEN handleApiError(error) ELSE MsgVideoUnknown]

\* a variant of VideoFinish that looks for the download link before the error
VideoFinishLinkFirst(v) ==
    IF ~Truthy(v.operation.uri)
    THEN VideoReject([v EXCEPT !.extracted = TRUE], PlainError(MsgVideoNoLink))
    ELSE IF v.operation.error # None
         THEN VideoReject([v EXCEPT !.extracted = TRUE], PlainError(
                  IF Truthy(v.operation.error[1]) THEN v.operation.error[1]
                  ELSE MsgVideoFailed))
         ELSE [v EXCEPT !.extracted = TRUE, !.pc = "returned",
                        !.result = v.operation.uri \o <<"&key=">>]

\* lines 273-283, entered when the loop condition finds operation.done
VideoFinish(v) ==
    IF v.operation.error # None
    THEN VideoReject(v, PlainError(
             IF Truthy(v.operation.error[1]) THEN v.operation.error[1] ELSE MsgVideoFailed))
    ELSE IF ~Truthy(v.operation.uri)
         THEN VideoReject([v EXCEPT !.extracted = TRUE], PlainError(MsgVideoNoLink))
         ELSE [v EXCEPT !.extracted = TRUE, !.pc = "returned",
                        !.result = v.operation.uri \o <<"&key=">>]

\* a variant of VideoLoop that waits once before it reads operation.done
VideoLoopWaitFirst(v) ==
    IF v.waits = 0 \/ ~v.operation.done THEN [v EXCEPT !.pc = "waiting"]
    ELSE VideoFinish(v)

\* a variant of VideoLoop that gives up once it has waited
VideoLoopLimited(v) ==
    IF ~v.operation.done
    THEN (IF v.waits = 0 THEN [v EXCEPT !.pc = "waiting"]
          ELSE VideoReject(v, PlainError(MsgVideoFailed)))
    ELSE VideoFinish(v)

\* line 268: the loop condition, evaluated on the operation just received
VideoLoop(v) ==
    IF ~v.operation.done THEN [v EXCEPT !.pc = "waiting"]
    ELSE VideoFinish(v)

\* operation = await ...: besides the operation, v counts the answers that
\* said done=false and notes whether any answer carried an error status
VideoNoteAnswer(v, answer) ==
    [v EXCEPT !.operation = [done |-> answer.done, error |-> answer.error, uri |-> answer.uri],
              !.notDone = @ + (IF answer.done THEN 0 ELSE 1),
              !.sawError = @ \/ answer.error # None]

\* a variant of VideoSubmitted that notifies "polling" before it looks at the
\* outcome of the submission
VideoSubmittedNotifiesFirst(v, answer) ==
    LET notified == [v EXCEPT !.progress = Append(@, MsgVideoPolling)]
    IN IF answer.throws # None THEN VideoReject(notified, answer.throws[1])
       ELSE VideoLoop(VideoNoteAnswer(notified, answer))

\* lines 264-268: the submission settles
VideoSubmitted(v, answer) ==
    IF answer.throws # None THEN VideoReject(v, answer.throws[1])
    ELSE VideoLoop([VideoNoteAnswer(v, answer) EXCEPT !.progress = Append(@, MsgVideoPolling)])

\* line 269: the timer fires
VideoWaited(v) ==
    [v EXCEPT !.pc = "querying", !.waits = @ + 1]

\* lines 270 and 268: the status query settles
VideoQueried(v, answer) ==
    IF answer.throws # None THEN VideoReject([v EXCEPT !.queries = @ + 1], answer.throws[1])
    ELSE VideoLoop(VideoNoteAnswer([v EXCEPT !.queries = @ + 1], answer))


(***************************************************************************)
(* What the remote service may answer (bounded).                           *)
(***************************************************************************)
OutNames == <<"out1", "out2", "out3", "out4">>

ImagePartOf(name) == [inlineData |-> [data |-> <<name>>, mimeType |-> "image/png"]]

Answer(parts, finishReason, safetyRatings) ==
    [throws |-> None, parts |-> parts, finishReason |-> finishReason,
     safetyRatings |-> safetyRatings]
Thrown(error) ==
    [throws |-> Some(error), parts |-> <<>>, finishReason |-> "STOP", safetyRatings |-> <<>>]

RespImage(name) == Answer(<<ImagePartOf(name)>>, "STOP", <<>>)
RespTextImage(name) == Answer(<<TextPart(<<"Here it is.">>), ImagePartOf(name)>>, "STOP", <<>>)
RespTextOnly == Answer(<<TextPart(<<"I cannot do that.">>)>>, "STOP", <<>>)
RespNoParts == Answer(<<>>, "STOP", <<>>)
Rating(category, blocked) == [category |-> category, blocked |-> blocked]
RespSafety == Answer(<<>>, "SAFETY", <<Rating("HARM_CATEGORY_HARASSMENT", TRUE)>>)
RespSafetyTwo ==
    Answer(<<TextPart(<<"I cannot do that.">>)>>, "SAFETY",
           <<Rating("HARM_CATEGORY_HARASSMENT", TRUE),
             Rating("HARM_CATEGORY_HATE_SPEECH", FALSE),
             Rating("HARM_CATEGORY_DANGEROUS_CONTENT", TRUE)>>)
RespSafetyNoneBlocked ==
    Answer(<<>>, "SAFETY", <<Rating("HARM_CATEGORY_HATE_SPEECH", FALSE)>>)
RespNetwork == Thrown(PlainError(<<"Failed to fetch">>))
RespQuota ==
    Thrown([isError |-> TRUE, raw |-> <<"429 {quota}">>,
            json |-> Some([error |-> Some([message |-> <<"Quota exceeded">>,
                                           status |-> "RESOURCE_EXHAUSTED", code |-> 429])])])

\* the answers to an editImage request whose image, if any, is named name
Responses(name) ==
    {RespImage(name), RespTextImage(name), RespTextOnly, RespNoParts, RespSafety,
     RespSafetyTwo, RespSafetyNoneBlocked,
     RespNetwork, RespQuota}

\* the answers of the video service to a submission or a status query: a job
\* says done=false at most MaxPolls times, and an error it has reported stays
VideoAnswers(v) ==
    {[throws |-> None, done |-> d, error |-> e, uri |-> u] :
        d \in {b \in BOOLEAN : b \/ v.notDone < MaxPolls},
        e \in {x \in {None, Some(<<"Quota exceeded for video">>), Some(<<>>)} :
                  v.sawError => x # None},
        u \in {<<>>, <<"https://video/1">>}}
    \cup {[throws |-> Some(PlainError(<<"Failed to fetch">>)),
           done |-> FALSE, error |-> None, uri |-> <<>>]}

(***************************************************************************)
(* Gateway: generateImageFromText (part_000 209-236).                      *)
(* A response of generateImages is [throws, images]: images lists the      *)
(* imageBytes of response.generatedImages.                                 *)
(***************************************************************************)
MsgNoTextImage == <<"The model did not return an image. It might have refused the request.">>

ImageFromTextSettle(response) ==
    IF response.throws # None
    THEN [ok |-> FALSE, message |-> handleApiError(response.throws[1]), content |-> NoContent]
    ELSE IF Len(response.images) > 0
         THEN [ok |-> TRUE, message |-> <<>>,
               content |-> [imageUrl |-> DataUrl("image/png", response.images[1]),
                            text |-> <<>>]]
         ELSE [ok |-> FALSE, message |-> handleApiError(PlainError(MsgNoTextImage)),
               content |-> NoContent]

(***************************************************************************)
(* The transformation catalog.  ./constants is not part of the sources at  *)
(* hand: the catalog holds one transformation for each shape the           *)
(* specification's data model and validation table name, with the keys the *)
(* code of App.tsx tests for.  A flag the catalog leaves out is FALSE, a   *)
(* maxImages it leaves out is 0, a prompt it leaves out is empty.          *)
(***************************************************************************)
CUSTOM == <<"CUSTOM">>

BaseTransformation ==
    [key |-> NULL, prompt |-> <<>>, isMultiImage |-> FALSE, isSecondaryOptional |-> FALSE,
     maxImages |-> 0, isTwoStep |-> FALSE, stepTwoPrompt |-> <<>>,
     isMultiStepVideo |-> FALSE, isVideo |-> FALSE, videoPrompt |-> <<>>]

QrTemplate ==
    <<"A chibi holding a QR card. Bank: ", "{{bankName}}", ", name: ", "{{accountName}}",
      ", number: ", "{{accountNumber}}", ", branch: ", "{{branch}}">>

TRANSFORMATIONS ==
    <<[BaseTransformation EXCEPT !.key = "customPrompt", !.prompt = CUSTOM],
      [BaseTransformation EXCEPT !.key = "chibiQrCode", !.prompt = QrTemplate,
                                 !.isMultiImage = TRUE],
      [BaseTransformation EXCEPT !.key = "outfitStylist", !.prompt = <<"Style an outfit">>],
      [BaseTransformation EXCEPT !.key = "videoGeneration", !.prompt = CUSTOM,
                                 !.isVideo = TRUE],
      [BaseTransformation EXCEPT !.key = "dynamicPolaroid", !.prompt = <<"Make polaroids">>,
                                 !.maxImages = 2, !.isMultiStepVideo = TRUE,
                                 !.videoPrompt = <<"Animate the polaroid">>],
      [BaseTransformation EXCEPT !.key = "groupPhoto", !.prompt = <<"Merge into one photo">>,
                                 !.maxImages = 2],
      [BaseTransformation EXCEPT !.key = "colorPalette", !.prompt = <<"Turn into line art">>,
                                 !.isMultiImage = TRUE, !.isTwoStep = TRUE,
                                 !.stepTwoPrompt = <<"Color with the palette">>],
      [BaseTransformation EXCEPT !.key = "figurine", !.prompt = <<"Make a figurine">>],
      [BaseTransformation EXCEPT !.key = "pose", !.prompt = <<"Copy the pose">>,
                                 !.isMultiImage = TRUE],
      [BaseTransformation EXCEPT !.key = "background", !.prompt = <<"Swap the background">>,
                                 !.isMultiImage = TRUE, !.isSecondaryOptional = TRUE]>>

Keys == {TRANSFORMATIONS[i].key : i \in 1..Len(TRANSFORMATIONS)}

\* the Transformation object held in selectedTransformation
TransformationOf(key) ==
    IF key \in Keys
    THEN TRANSFORMATIONS[CHOOSE i \in 1..Len(TRANSFORMATIONS) : TRANSFORMATIONS[i].key = key]
    ELSE BaseTransformation

(***************************************************************************)
(* Texts.  A text field is a sequence of tokens; " " is white space.       *)
(***************************************************************************)
\* String.prototype.trim
RECURSIVE TrimLeft(_)
TrimLeft(s) == IF s # <<>> /\ Head(s) = " " THEN TrimLeft(Tail(s)) ELSE s

RECURSIVE TrimRight(_)
TrimRight(s) ==
    IF s # <<>> /\ s[Len(s)] = " " THEN TrimRight(SubSeq(s, 1, Len(s) - 1)) ELSE s

Trim(s) == TrimRight(TrimLeft(s))

\* String.prototype.replace with a string pattern: the first occurrence only
RECURSIVE ReplaceFirst(_, _, _)
ReplaceFirst(s, token, value) ==
    IF s = <<>> THEN <<>>
    ELSE IF Head(s) = token THEN value \o Tail(s)
         ELSE <<Head(s)>> \o ReplaceFirst(Tail(s), token, value)

\* App.tsx 21-27, a character at a time: toUpperCase, NFD, drop the combining
\* marks, D-with-stroke to D
ToUpperCase(c) ==
    CASE c = "a" -> "A" [] c = "d" -> "D" [] c = "n" -> "N"
      [] c = "a-acute" -> "A-acute" [] c = "e-circumflex-acute" -> "E-circumflex-acute"
      [] c = "o-horn" -> "O-horn" [] c = "d-stroke" -> "D-stroke"
      [] OTHER -> c

NFD(c) ==
    CASE c = "A-acute" -> <<"A", "U+0301">> [] c = "a-acute" -> <<"a", "U+0301">>
      [] c = "E-circumflex-acute" -> <<"E", "U+0302", "U+0301">>
      [] c = "e-circumflex-acute" -> <<"e", "U+0302", "U+0301">>
      [] c = "O-horn" -> <<"O", "U+031B">> [] c = "o-horn" -> <<"o", "U+031B">>
      [] OTHER -> <<c>>

IsCombiningMark(c) == c \in {"U+0301", "U+0302", "U+031B"}

\* a variant of formatBankText that replaces the D-with-stroke first
RECURSIVE formatBankTextStrokeFirst(_)
formatBankTextStrokeFirst(text) ==
    IF text = <<>> THEN <<>>
    ELSE LET latin == IF Head(text) = "D-stroke" THEN "D" ELSE Head(text)
             decomposed == NFD(ToUpperCase(latin))
         IN SelectSeq(decomposed, LAMBDA c : ~IsCombiningMark(c))
            \o formatBankTextStrokeFirst(Tail(text))

RECURSIVE formatBankText(_)
formatBankText(text) ==
    IF text = <<>> THEN <<>>
    ELSE LET decomposed == NFD(ToUpperCase(Head(text)))
             stripped == SelectSeq(decomposed, LAMBDA c : ~IsCombiningMark(c))
             latin == [i \in 1..Len(stripped) |-> IF stripped[i] = "D-stroke" THEN "D" ELSE stripped[i]]
         IN latin \o formatBankText(Tail(text))

\* url.split(',')[1] and url.split(';')[0].split(':')[1] ?? 'image/png'
ImagePayloadOf(url) ==
    [base64 |-> url[2], mimeType |-> IF url[1] = "" THEN "image/png" ELSE url[1]]

(***************************************************************************)
(* State.                                                                  *)
(***************************************************************************)
VARIABLES
    gw,       \* the gateway call driven on its own (gateway specification)
    app,      \* the React state of App, one field for each useState it reads
    runs,     \* the invocations of the asynchronous handlers still in flight
    revoked,  \* the object URLs handed to URL.revokeObjectURL so far
    session   \* the transformations the user goes through in this session

vars == <<gw, app, runs, revoked, session>>

(***************************************************************************)
(* Orchestrator: the state of App (App.tsx 53-88).                         *)
(***************************************************************************)
\* more invocations than this are never in flight together
MaxInFlight == 2
\* no invocation starts once history and the invocations in flight reach this
MaxHistory == 2
\* the user picks among the first candidates of the options panel only
MaxPick == 2

\* useState initial values, lines 53-88
AppInitial ==
    [selectedTransformation |-> NULL,
     primaryImageUrl |-> NoUrl, secondaryImageUrl |-> NoUrl, multiImageUrls |-> <<>>,
     generatedContent |-> None, isLoading |-> FALSE, loadingMessage |-> <<>>,
     error |-> <<>>, maskDataUrl |-> NoUrl, customPrompt |-> <<>>,
     aspectRatio |-> "16:9", imageAspectRatio |-> "1:1",
     history |-> <<>>, imageOptions |-> None, selectedOption |-> NoUrl,
     generatedLookbookImages |-> <<>>,
     bankName |-> <<>>, accountName |-> <<>>, accountNumber |-> <<>>, branch |-> <<>>,
     lookbookDescription |-> <<>>, numImages |-> 4, outputQuality |-> "ultra"]

\* a GeneratedContent object (types.ts is not at hand; the fields are those
\* App.tsx writes); a field an object literal leaves out is NoUrl
Content(imageUrl, text, videoUrl, originalImageUrl, secondaryImageUrl) ==
    [imageUrl |-> imageUrl, text |-> text, videoUrl |-> videoUrl,
     originalImageUrl |-> originalImageUrl, secondaryImageUrl |-> secondaryImageUrl]

\* the messages of t('app.error.*') and t('app.loading.*'), named by their keys
MsgUploadAndSelect == <<"app.error.uploadAndSelect">>
MsgEnterPrompt == <<"app.error.enterPrompt">>
MsgFillAllFields == <<"app.error.fillAllFields">>
MsgUploadOne == <<"app.error.uploadOne">>
MsgUploadBoth == <<"app.error.uploadBoth">>
MsgSelectOneToAnimate == <<"app.error.selectOneToAnimate">>
MsgUseAsInputFailed == <<"app.error.useAsInputFailed">>
MsgLoadingDefault == <<"app.loading.default">>
MsgGeneratingOptions == <<"app.loading.generatingOptions">>
MsgStep1 == <<"app.loading.step1">>
MsgStep2 == <<"app.loading.step2">>
MsgVideoFetching == <<"app.loading.videoFetching">>

\* lines 99-111: the object URLs the cleanup of the effect revokes, for the
\* history and generatedContent of the render that installed it
VideoUrlsOf(a) ==
    {a.history[i].videoUrl : i \in {j \in 1..Len(a.history) : Truthy(a.history[j].videoUrl)}}
    \cup (IF a.generatedContent # None /\ Truthy(a.generatedContent[1].videoUrl)
          THEN {a.generatedContent[1].videoUrl} ELSE {})

\* lines 99-111: React runs the cleanup of the previous render's effect when
\* history or generatedContent has changed
EffectCleanup(old, new) ==
    IF new.history # old.history \/ new.generatedContent # old.generatedContent
    THEN VideoUrlsOf(old)
    ELSE {}

\* the state updates of one synchronous stretch of a handler are rendered
\* together; the effects of the render follow
Render(new) ==
    /\ app' = new
    /\ revoked' = revoked \cup EffectCleanup(app, new)
    /\ UNCHANGED gw

\* lines 468-471, 204-207, 261-264: the finally blocks
Finally(a) == [a EXCEPT !.isLoading = FALSE, !.loadingMessage = <<>>]

(***************************************************************************)
(* Orchestrator: the handlers that finish at once (App.tsx 113-165,        *)
(* 483-560), as state updates.                                             *)
(***************************************************************************)
\* lines 113-128
handleSelectTransformation(a, transformation) ==
    [a EXCEPT !.selectedTransformation = transformation.key,
              !.generatedContent = None,
              !.error = <<>>,
              !.imageOptions = None,
              !.selectedOption = NoUrl,
              !.generatedLookbookImages = <<>>,
              !.customPrompt = IF transformation.prompt # CUSTOM THEN <<>> ELSE @,
              !.multiImageUrls =
                  IF transformation.maxImages > 0 /\ Truthy(a.primaryImageUrl)
                     /\ Len(a.multiImageUrls) = 0
                  THEN <<a.primaryImageUrl>> ELSE @]

\* lines 130-140
handlePrimaryImageSelect(a, dataUrl) ==
    [a EXCEPT !.primaryImageUrl = dataUrl, !.generatedContent = None, !.error = <<>>,
              !.maskDataUrl = NoUrl, !.imageOptions = None, !.selectedOption = NoUrl,
              !.generatedLookbookImages = <<>>]

\* lines 142-147
handleSecondaryImageSelect(a, dataUrl) ==
    [a EXCEPT !.secondaryImageUrl = dataUrl, !.generatedContent = None, !.error = <<>>]

\* lines 149-160
handleClearPrimaryImage(a) ==
    [a EXCEPT !.primaryImageUrl = NoUrl, !.multiImageUrls = <<>>,
              !.generatedContent = None, !.error = <<>>, !.maskDataUrl = NoUrl,
              !.imageOptions = None, !.selectedOption = NoUrl,
              !.generatedLookbookImages = <<>>]

\* lines 162-165
handleClearSecondaryImage(a) == [a EXCEPT !.secondaryImageUrl = NoUrl]

\* a variant of handleUseImageAsInput that leaves the mask layer as it is
handleUseImageAsInputKeepsMask(a, imageUrl, converted) ==
    IF ~Truthy(imageUrl) THEN a
    ELSE IF ~converted THEN [a EXCEPT !.error = MsgUseAsInputFailed]
    ELSE [a EXCEPT !.primaryImageUrl = imageUrl, !.generatedContent = None,
                   !.error = <<>>, !.secondaryImageUrl = NoUrl,
                   !.multiImageUrls = <<imageUrl>>, !.selectedTransformation = NULL,
                   !.imageOptions = None, !.selectedOption = NoUrl,
                   !.generatedLookbookImages = <<>>,
                   !.bankName = <<>>, !.accountName = <<>>, !.accountNumber = <<>>,
                   !.branch = <<>>]

\* lines 483-510: dataUrlToFile resolves (converted) or rejects
handleUseImageAsInput(a, imageUrl, converted) ==
    IF ~Truthy(imageUrl) THEN a
    ELSE IF ~converted THEN [a EXCEPT !.error = MsgUseAsInputFailed]
    ELSE [a EXCEPT !.primaryImageUrl = imageUrl, !.generatedContent = None,
                   !.error = <<>>, !.maskDataUrl = NoUrl, !.secondaryImageUrl = NoUrl,
                   !.multiImageUrls = <<imageUrl>>, !.selectedTransformation = NULL,
                   !.imageOptions = None, !.selectedOption = NoUrl,
                   !.generatedLookbookImages = <<>>,
                   !.bankName = <<>>, !.accountName = <<>>, !.accountNumber = <<>>,
                   !.branch = <<>>]

\* lines 525-530
handleBackToSelection(a) ==
    [a EXCEPT !.selectedTransformation = NULL, !.imageOptions = None,
              !.selectedOption = NoUrl, !.generatedLookbookImages = <<>>]

\* lines 532-560
handleResetApp(a) ==
    [a EXCEPT !.selectedTransformation = NULL, !.primaryImageUrl = NoUrl,
              !.secondaryImageUrl = NoUrl, !.multiImageUrls = <<>>,
              !.generatedContent = None, !.generatedLookbookImages = <<>>,
              !.error = <<>>, !.isLoading = FALSE, !.maskDataUrl = NoUrl,
              !.customPrompt = <<>>, !.imageOptions = None, !.selectedOption = NoUrl,
              !.bankName = <<>>, !.accountName = <<>>, !.accountNumber = <<>>,
              !.branch = <<>>, !.lookbookDescription = <<>>, !.numImages = 4,
              !.outputQuality = "ultra"]

(***************************************************************************)
(* Orchestrator: the asynchronous handlers up to their first await.        *)
(* A run is one invocation in flight: kind names the branch it took, pc    *)
(* the await it is suspended at, request the gateway call it awaits,       *)
(* and t, orig, sec the values of selectedTransformation, of the primary   *)
(* input and of secondaryImageUrl that its closure holds.  mid is the      *)
(* watermarked step-1 image of the two-step branch, v the local state of   *)
(* its generateVideo call.                                                 *)
(***************************************************************************)
NoVideo == [VideoStart EXCEPT !.pc = "none", !.progress = <<>>]

Request(op, prompt, imageParts, maskBase64, aspectRatio, count) ==
    [op |-> op, prompt |-> prompt, imageParts |-> imageParts, maskBase64 |-> maskBase64,
     aspectRatio |-> aspectRatio, count |-> count]

Run(kind, t, request, orig, sec) ==
    [kind |-> kind, pc |-> "awaiting", t |-> t, request |-> request, orig |-> orig,
     sec |-> sec, mid |-> NoUrl, v |-> NoVideo]

\* what a handler has done when it first suspends or returns: the state it
\* has set and the run it has left in flight, if any
Started(a, run) == [app |-> a, run |-> Some(run)]
Returned(a) == [app |-> a, run |-> None]

\* lines 287-291
GenerateImagePrologue(a) ==
    [a EXCEPT !.isLoading = TRUE, !.error = <<>>, !.generatedContent = None,
              !.generatedLookbookImages = <<>>, !.loadingMessage = <<>>]

\* a variant of GenerateImageRejected that returns without clearing the
\* loading flag
GenerateImageRejectedSpinning(a, message) ==
    Returned([GenerateImagePrologue(a) EXCEPT !.error = message])

\* setError(..); setIsLoading(false); return inside the try: the finally
\* block runs as well
GenerateImageRejected(a, message) ==
    Returned(Finally([GenerateImagePrologue(a) EXCEPT !.error = message]))

\* lines 311-313
LookbookPrompt(description, outputQuality) ==
    <<"Create a fashion lookbook image based on the following description: \"">>
    \o description
    \o <<"\". The main character should resemble the person in the provided image.">>
    \o (IF outputQuality = "high" THEN <<" Generate a high-resolution, 4K image.">>
        ELSE IF outputQuality = "ultra"
             THEN <<" Generate an ultra-realistic, 8K, highly detailed image.">>
             ELSE <<>>)

\* lines 294-321, up to the await of generateLookbook
LookbookStart(a, T) ==
    IF ~Truthy(a.primaryImageUrl) THEN GenerateImageRejected(a, MsgUploadAndSelect)
    ELSE IF ~Truthy(Trim(a.lookbookDescription)) THEN GenerateImageRejected(a, MsgEnterPrompt)
    ELSE Started([GenerateImagePrologue(a) EXCEPT !.loadingMessage = MsgLoadingDefault],
                 Run("lookbook", T.key,
                     Request("generateLookbook",
                             LookbookPrompt(a.lookbookDescription, a.outputQuality),
                             <<ImagePayloadOf(a.primaryImageUrl)>>, <<>>, "", a.numImages),
                     a.primaryImageUrl, NoUrl))

\* lines 330-338
QrPrompt(template, bankName, accountName, accountNumber, branch) ==
    ReplaceFirst(
        ReplaceFirst(
            ReplaceFirst(
                ReplaceFirst(template, "{{bankName}}", formatBankText(bankName)),
                "{{accountName}}", formatBankText(accountName)),
            "{{accountNumber}}", accountNumber),
        "{{branch}}", formatBankText(branch))

\* lines 323-352, up to the await of editImage
ChibiQrCodeStart(a, T) ==
    IF \/ ~Truthy(a.primaryImageUrl) \/ ~Truthy(a.secondaryImageUrl)
       \/ ~Truthy(Trim(a.bankName)) \/ ~Truthy(Trim(a.accountName))
       \/ ~Truthy(Trim(a.accountNumber)) \/ ~Truthy(Trim(a.branch))
    THEN GenerateImageRejected(a, MsgFillAllFields)
    ELSE Started([GenerateImagePrologue(a) EXCEPT !.loadingMessage = MsgLoadingDefault],
                 Run("chibiQrCode", T.key,
                     Request("editImage",
                             QrPrompt(T.prompt, a.bankName, a.accountName, a.accountNumber,
                                      a.branch),
                             <<ImagePayloadOf(a.primaryImageUrl),
                               ImagePayloadOf(a.secondaryImageUrl)>>, <<>>, "", 1),
                     a.primaryImageUrl, a.secondaryImageUrl))

\* multiImageUrls.map(url => ({base64, mimeType}))
GalleryPayloads(urls) == [i \in 1..Len(urls) |-> ImagePayloadOf(urls[i])]

\* lines 354-370, up to the await of generateImageEditsBatch
BatchStart(a, T, promptToUse) ==
    IF Len(a.multiImageUrls) = 0 THEN GenerateImageRejected(a, MsgUploadOne)
    ELSE Started([GenerateImagePrologue(a) EXCEPT !.loadingMessage = MsgGeneratingOptions],
                 Run("batch", T.key,
                     Request("generateImageEditsBatch", promptToUse,
                             GalleryPayloads(a.multiImageUrls), <<>>, "", BatchCount),
                     a.multiImageUrls[1], NoUrl))

\* lines 373-379, up to the await of generateImageFromText
TextToImageStart(a, T, promptToUse) ==
    Started(GenerateImagePrologue(a),
            Run("textToImage", T.key,
                Request("generateImageFromText", promptToUse, <<>>, <<>>,
                        a.imageAspectRatio, 1),
                NoUrl, NoUrl))

\* lines 383-397, up to the await of editImage
GalleryStart(a, T, promptToUse) ==
    IF Len(a.multiImageUrls) = 0 THEN GenerateImageRejected(a, MsgUploadOne)
    ELSE Started(GenerateImagePrologue(a),
                 Run("gallery", T.key,
                     Request("editImage", promptToUse, GalleryPayloads(a.multiImageUrls),
                             <<>>, "", 1),
                     a.multiImageUrls[1], NoUrl))

\* lines 399-407, up to the await of the step-1 editImage
TwoStepStart(a, T, promptToUse) ==
    IF ~Truthy(a.primaryImageUrl) \/ ~Truthy(a.secondaryImageUrl)
    THEN GenerateImageRejected(a, MsgUploadBoth)
    ELSE Started([GenerateImagePrologue(a) EXCEPT !.loadingMessage = MsgStep1],
                 Run("twoStep", T.key,
                     Request("editImage", promptToUse,
                             <<ImagePayloadOf(a.primaryImageUrl)>>, <<>>, "", 1),
                     a.primaryImageUrl, a.secondaryImageUrl))

\* lines 381 and 433-457, up to the await of editImage
DefaultStart(a, T, promptToUse) ==
    IF ~Truthy(a.primaryImageUrl) THEN GenerateImageRejected(a, MsgUploadAndSelect)
    ELSE IF T.isMultiImage /\ ~T.isSecondaryOptional /\ ~Truthy(a.secondaryImageUrl)
    THEN GenerateImageRejected(a, MsgUploadBoth)
    ELSE Started([GenerateImagePrologue(a) EXCEPT !.loadingMessage = MsgLoadingDefault],
                 Run("default", T.key,
                     Request("editImage", promptToUse,
                             <<ImagePayloadOf(a.primaryImageUrl)>>
                             \o (IF T.isMultiImage /\ Truthy(a.secondaryImageUrl)
                                 THEN <<ImagePayloadOf(a.secondaryImageUrl)>> ELSE <<>>),
                             IF Truthy(a.maskDataUrl) THEN a.maskDataUrl[2] ELSE <<>>,
                             "", 1),
                     a.primaryImageUrl, a.secondaryImageUrl))

\* a variant of handleGenerateImage that looks at maxImages before
\* isMultiStepVideo
handleGenerateImageGalleryFirst(a) ==
    LET T == TransformationOf(a.selectedTransformation)
        promptToUse == IF T.prompt = CUSTOM THEN a.customPrompt ELSE T.prompt
    IN IF a.selectedTransformation = NULL
       THEN Returned([a EXCEPT !.error = MsgUploadAndSelect])
       ELSE IF T.key = "outfitStylist" THEN LookbookStart(a, T)
       ELSE IF T.key = "chibiQrCode" THEN ChibiQrCodeStart(a, T)
       ELSE IF T.key = "customPrompt" /\ ~Truthy(a.primaryImageUrl)
            THEN TextToImageStart(a, T, promptToUse)
       ELSE IF T.maxImages > 0 THEN GalleryStart(a, T, promptToUse)
       ELSE IF T.isMultiStepVideo THEN BatchStart(a, T, promptToUse)
       ELSE IF T.isTwoStep THEN TwoStepStart(a, T, promptToUse)
       ELSE DefaultStart(a, T, promptToUse)

\* lines 279-464: handleGenerateImage up to its first await
handleGenerateImage(a) ==
    LET T == TransformationOf(a.selectedTransformation)
        promptToUse == IF T.prompt = CUSTOM THEN a.customPrompt ELSE T.prompt
    IN IF a.selectedTransformation = NULL
       THEN Returned([a EXCEPT !.error = MsgUploadAndSelect])
       ELSE IF T.key = "outfitStylist" THEN LookbookStart(a, T)
       ELSE IF T.key = "chibiQrCode" THEN ChibiQrCodeStart(a, T)
       ELSE IF T.isMultiStepVideo THEN BatchStart(a, T, promptToUse)
       ELSE IF T.key = "customPrompt" /\ ~Truthy(a.primaryImageUrl)
            THEN TextToImageStart(a, T, promptToUse)
       ELSE IF T.maxImages > 0 THEN GalleryStart(a, T, promptToUse)
       ELSE IF T.isTwoStep THEN TwoStepStart(a, T, promptToUse)
       ELSE DefaultStart(a, T, promptToUse)

\* lines 212-238: handleGenerateVideo up to the await of generateVideo, which
\* has notified "initializing" by then (part_000 245)
handleGenerateVideo(a) ==
    IF a.selectedTransformation = NULL THEN Returned(a)
    ELSE IF ~Truthy(Trim(a.customPrompt)) THEN Returned([a EXCEPT !.error = MsgEnterPrompt])
    ELSE Started([a EXCEPT !.isLoading = TRUE, !.error = <<>>, !.generatedContent = None,
                           !.loadingMessage = MsgVideoInit],
                 [Run("video", a.selectedTransformation,
                      Request("generateVideo", a.customPrompt,
                              IF Truthy(a.primaryImageUrl)
                              THEN <<ImagePayloadOf(a.primaryImageUrl)>> ELSE <<>>,
                              <<>>, a.aspectRatio, 1),
                      a.primaryImageUrl, NoUrl)
                  EXCEPT !.v = VideoStart])

\* a variant of handleGenerateDynamicVideo that asks for the aspect ratio
\* chosen in the video form
handleGenerateDynamicVideoChosenRatio(a) ==
    LET T == TransformationOf(a.selectedTransformation)
    IN IF a.selectedTransformation = NULL \/ ~Truthy(T.videoPrompt)
          \/ ~Truthy(a.selectedOption)
       THEN Returned([a EXCEPT !.error = MsgSelectOneToAnimate])
       ELSE Started([a EXCEPT !.isLoading = TRUE, !.error = <<>>, !.generatedContent = None,
                              !.imageOptions = None, !.loadingMessage = MsgVideoInit],
                    [Run("animate", a.selectedTransformation,
                         Request("generateVideo", T.videoPrompt,
                                 <<ImagePayloadOf(a.selectedOption)>>, <<>>, a.aspectRatio, 1),
                         a.selectedOption, NoUrl)
                     EXCEPT !.v = VideoStart])

\* lines 167-188: handleGenerateDynamicVideo up to the await of generateVideo
handleGenerateDynamicVideo(a) ==
    LET T == TransformationOf(a.selectedTransformation)
    IN IF a.selectedTransformation = NULL \/ ~Truthy(T.videoPrompt)
          \/ ~Truthy(a.selectedOption)
       THEN Returned([a EXCEPT !.error = MsgSelectOneToAnimate])
       ELSE Started([a EXCEPT !.isLoading = TRUE, !.error = <<>>, !.generatedContent = None,
                              !.imageOptions = None, !.loadingMessage = MsgVideoInit],
                    [Run("animate", a.selectedTransformation,
                         Request("generateVideo", T.videoPrompt,
                                 <<ImagePayloadOf(a.selectedOption)>>, <<>>, "9:16", 1),
                         a.selectedOption, NoUrl)
                     EXCEPT !.v = VideoStart])

\* lines 474-480
handleGenerate(a) ==
    IF TransformationOf(a.selectedTransformation).isVideo THEN handleGenerateVideo(a)
    ELSE handleGenerateImage(a)

\* lines 569-596
isGenerateDisabled(a) ==
    LET T == TransformationOf(a.selectedTransformation)
        isCustomPromptEmpty == T.prompt = CUSTOM /\ ~Truthy(Trim(a.customPrompt))
        imagesReady == IF T.isMultiImage
                       THEN IF T.isSecondaryOptional THEN Truthy(a.primaryImageUrl)
                            ELSE Truthy(a.primaryImageUrl) /\ Truthy(a.secondaryImageUrl)
                       ELSE Truthy(a.primaryImageUrl)
    IN IF a.selectedTransformation = NULL THEN TRUE
       ELSE IF T.key = "customPrompt" THEN a.isLoading \/ isCustomPromptEmpty
       ELSE IF T.key = "chibiQrCode"
            THEN \/ a.isLoading \/ ~Truthy(a.primaryImageUrl) \/ ~Truthy(a.secondaryImageUrl)
                 \/ ~Truthy(Trim(a.bankName)) \/ ~Truthy(Trim(a.accountName))
                 \/ ~Truthy(Trim(a.accountNumber)) \/ ~Truthy(Trim(a.branch))
       ELSE IF T.key = "outfitStylist"
            THEN a.isLoading \/ ~Truthy(a.primaryImageUrl)
                 \/ ~Truthy(Trim(a.lookbookDescription))
       ELSE IF T.isVideo THEN a.isLoading \/ ~Truthy(Trim(a.customPrompt))
       ELSE IF T.maxImages > 0 THEN a.isLoading \/ Len(a.multiImageUrls) = 0
       ELSE a.isLoading \/ isCustomPromptEmpty \/ ~imagesReady

(***************************************************************************)
(* Orchestrator: the asynchronous handlers from one await to the next.     *)
(* The awaits of applyWatermarks, loadImage, resizeImageToMatch and        *)
(* response.blob() neither read nor write the state of App, so each is     *)
(* taken together with the gateway answer that precedes it.                *)
(***************************************************************************)
\* utils/fileUtils is not at hand: each utility yields a new data URL made
\* from its input
embedWatermark(imageUrl) == DataUrl(imageUrl[1], imageUrl[2] \o <<"+signature">>)
addVisibleWatermark(imageUrl) == DataUrl(imageUrl[1], imageUrl[2] \o <<"+overlay">>)
resizeImageToMatch(imageUrl) == DataUrl("image/png", imageUrl[2] \o <<"+resized">>)
MsgImageLoadFailed == <<"Failed to load image">>

\* how a call of applyWatermarks goes: both stages work, or one of them throws
WatermarkOutcomes == {"marked", "embedThrows", "overlayThrows"}

\* a variant of applyWatermarks that gives null when a stage throws
applyWatermarksOrNull(imageUrl, outcome) ==
    IF ~Truthy(imageUrl) THEN NoUrl
    ELSE IF outcome = "marked" THEN addVisibleWatermark(embedWatermark(imageUrl))
    ELSE NoUrl

\* a variant of applyWatermarks that hands back the signed intermediate when
\* the visible overlay throws
applyWatermarksPartial(imageUrl, outcome) ==
    IF ~Truthy(imageUrl) THEN NoUrl
    ELSE IF outcome = "marked" THEN addVisibleWatermark(embedWatermark(imageUrl))
    ELSE IF outcome = "overlayThrows" THEN embedWatermark(imageUrl)
    ELSE imageUrl

\* lines 267-277
applyWatermarks(imageUrl, outcome) ==
    IF ~Truthy(imageUrl) THEN NoUrl
    ELSE IF outcome = "marked" THEN addVisibleWatermark(embedWatermark(imageUrl))
    ELSE imageUrl

\* a variant of PushResult that keeps one entry of each result
PushResultDeduplicated(a, result) ==
    [a EXCEPT !.generatedContent = Some(result),
              !.history = <<result>> \o SelectSeq(@, LAMBDA entry : entry # result)]

\* a variant of PushResult that puts the result behind the older entries
PushResultAppend(a, result) ==
    [a EXCEPT !.generatedContent = Some(result), !.history = @ \o <<result>>]

\* setGeneratedContent(result); setHistory(prev => [result, ...prev])
PushResult(a, result) ==
    [a EXCEPT !.generatedContent = Some(result), !.history = <<result>> \o @]

\* lines 465-471: catch and finally
GenerateImageFailed(a, message) == Returned(Finally([a EXCEPT !.error = message]))

\* a variant of EditCompleted that reads the primary image when the call
\* settles
EditCompletedLivePrimary(a, run, settle, outcome) ==
    IF ~settle.ok THEN GenerateImageFailed(a, settle.message)
    ELSE Returned(Finally(PushResult(a,
             Content(applyWatermarks(settle.content.imageUrl, outcome), settle.content.text,
                     NoUrl, a.primaryImageUrl, NoUrl))))

\* lines 346-351, 393-397 and 457-463: the single editImage call has settled
EditCompleted(a, run, settle, outcome) ==
    IF ~settle.ok THEN GenerateImageFailed(a, settle.message)
    ELSE Returned(Finally(PushResult(a,
             Content(applyWatermarks(settle.content.imageUrl, outcome), settle.content.text,
                     NoUrl, run.orig, NoUrl))))

\* lines 374-378: generateImageFromText has settled
TextToImageCompleted(a, run, settle, outcome) ==
    IF ~settle.ok THEN GenerateImageFailed(a, settle.message)
    ELSE Returned(Finally(PushResult(a,
             Content(applyWatermarks(settle.content.imageUrl, outcome), settle.content.text,
                     NoUrl, NoUrl, NoUrl))))

MsgStepOneFailed == <<"Step 1 (line art) failed to generate an image.">>

\* a variant of StepOneCompleted that goes on to step 2 with the primary
\* image when step 1 gave none
StepOneCompletedLenient(a, run, settle, outcome, loaded) ==
    LET stepOneImageUrl == IF settle.ok /\ Truthy(settle.content.imageUrl)
                           THEN applyWatermarks(settle.content.imageUrl, outcome)
                           ELSE run.orig
        shown == [a EXCEPT !.loadingMessage = MsgStep2]
    IN IF ~loaded THEN Returned(Finally([shown EXCEPT !.error = MsgImageLoadFailed]))
       ELSE Started(shown,
                [run EXCEPT !.pc = "awaiting2", !.mid = stepOneImageUrl,
                            !.request =
                                Request("editImage", TransformationOf(run.t).stepTwoPrompt,
                                        <<ImagePayloadOf(stepOneImageUrl),
                                          ImagePayloadOf(resizeImageToMatch(run.sec))>>,
                                        <<>>, "", 1)])

\* lines 407-425: the step-1 editImage has settled; loaded tells whether
\* loadImage and resizeImageToMatch resolve
StepOneCompleted(a, run, settle, outcome, loaded) ==
    IF ~settle.ok THEN GenerateImageFailed(a, settle.message)
    ELSE IF ~Truthy(settle.content.imageUrl) THEN GenerateImageFailed(a, MsgStepOneFailed)
    ELSE LET stepOneImageUrl == applyWatermarks(settle.content.imageUrl, outcome)
             shown == [a EXCEPT !.loadingMessage = MsgStep2]
         IN IF ~loaded THEN GenerateImageFailed(shown, MsgImageLoadFailed)
            ELSE Started(shown,
                     [run EXCEPT !.pc = "awaiting2", !.mid = stepOneImageUrl,
                                 !.request =
                                     Request("editImage", TransformationOf(run.t).stepTwoPrompt,
                                             <<ImagePayloadOf(stepOneImageUrl),
                                               ImagePayloadOf(resizeImageToMatch(run.sec))>>,
                                             <<>>, "", 1)])

\* a variant of StepTwoCompleted whose result carries the secondary image
\* the user gave
StepTwoCompletedUserSecondary(a, run, settle, outcome) ==
    IF ~settle.ok THEN GenerateImageFailed(a, settle.message)
    ELSE Returned(Finally(PushResult(a,
             Content(applyWatermarks(settle.content.imageUrl, outcome), settle.content.text,
                     NoUrl, run.orig, run.sec))))

\* lines 425-431: the step-2 editImage has settled
StepTwoCompleted(a, run, settle, outcome) ==
    IF ~settle.ok THEN GenerateImageFailed(a, settle.message)
    ELSE Returned(Finally(PushResult(a,
             Content(applyWatermarks(settle.content.imageUrl, outcome), settle.content.text,
                     NoUrl, run.orig, run.mid))))

\* a variant of WatermarkAll that sends every image through applyWatermarks
\* a second time
RECURSIVE WatermarkAllRemarked(_, _)
WatermarkAllRemarked(urls, outcome) ==
    IF urls = <<>> THEN <<>>
    ELSE LET marked == applyWatermarks(applyWatermarks(Head(urls), outcome), outcome)
         IN (IF Truthy(marked) THEN <<marked>> ELSE <<>>)
            \o WatermarkAllRemarked(Tail(urls), outcome)

\* results.map(url => applyWatermarks(url)) and .filter(url => !!url)
RECURSIVE WatermarkAll(_, _)
WatermarkAll(urls, outcome) ==
    IF urls = <<>> THEN <<>>
    ELSE LET marked == applyWatermarks(Head(urls), outcome)
         IN (IF Truthy(marked) THEN <<marked>> ELSE <<>>) \o WatermarkAll(Tail(urls), outcome)

\* a variant of BatchCompleted that also shows the first image of the set as
\* the result and keeps it in history
BatchCompletedPushes(a, run, batch, outcome) ==
    IF batch.state = "rejected" THEN GenerateImageFailed(a, batch.message)
    ELSE LET marked == WatermarkAll(batch.images, outcome)
             first == Content(Head(marked), <<>>, NoUrl, run.orig, NoUrl)
         IN IF run.kind = "lookbook"
            THEN Returned(Finally(PushResult([a EXCEPT !.generatedLookbookImages = marked],
                                             first)))
            ELSE Returned(Finally(PushResult([a EXCEPT !.imageOptions = Some(marked),
                                                       !.selectedOption = NoUrl], first)))

\* lines 316-320 and 365-369: the batch operation has settled
BatchCompleted(a, run, batch, outcome) ==
    IF batch.state = "rejected" THEN GenerateImageFailed(a, batch.message)
    ELSE IF run.kind = "lookbook"
         THEN Returned(Finally([a EXCEPT !.generatedLookbookImages =
                                             WatermarkAll(batch.images, outcome)]))
         ELSE Returned(Finally([a EXCEPT !.imageOptions =
                                             Some(WatermarkAll(batch.images, outcome)),
                                         !.selectedOption = NoUrl]))

\* lines 204-207 and 261-264: the finally blocks of the two video handlers
VideoFinally(a, run) ==
    IF run.kind = "animate" THEN [Finally(a) EXCEPT !.selectedOption = NoUrl]
    ELSE Finally(a)

\* lines 183-191 and 233-241: generateVideo has moved from run.v to v; its
\* progress callback sets loadingMessage, its rejection is caught, and when
\* it returns the handler fetches the download URL
VideoAdvanced(a, run, v) ==
    LET notified == IF v.progress # run.v.progress
                    THEN [a EXCEPT !.loadingMessage = v.progress[Len(v.progress)]]
                    ELSE a
    IN IF v.pc = "rejected"
       THEN Returned(VideoFinally([notified EXCEPT !.error = v.result], run))
       ELSE IF v.pc = "returned"
            THEN Started([notified EXCEPT !.loadingMessage = MsgVideoFetching],
                         [run EXCEPT !.v = v, !.pc = "fetching",
                                     !.request = Request("fetch", v.result, <<>>, <<>>, "", 1)])
            ELSE Started(notified, [run EXCEPT !.v = v])

MsgDownloadFailed(statusText) == <<"Failed to download video file. Status: ">> \o statusText

\* what fetch of the download URL may do
FetchOutcomes == {"ok", "notOk", "throws"}

\* URL.createObjectURL: a URL no earlier call has returned; every URL made
\* so far is in history, which only grows
CreateObjectURL(a) == <<"blob:", [i \in 1..(Len(a.history) + 1) |-> "#"]>>

\* lines 191-207 and 241-264: the fetch has settled
FetchCompleted(a, run, outcome) ==
    IF outcome = "throws"
    THEN Returned(VideoFinally([a EXCEPT !.error = <<"Failed to fetch">>], run))
    ELSE IF outcome = "notOk"
    THEN Returned(VideoFinally([a EXCEPT !.error = MsgDownloadFailed(<<"Forbidden">>)], run))
    ELSE Returned(VideoFinally(
             PushResult(a, Content(NoUrl, <<>>, CreateObjectURL(a), run.orig, NoUrl)), run))

(***************************************************************************)
(* The gateway driven on its own: one call of editImage, of a batch        *)
(* operation or of generateVideo, its inputs drawn from bounded sets and   *)
(* the service's answers chosen freely.                                    *)
(***************************************************************************)
GwIdle == [fn |-> "none"]

\* a gateway function run on its own leaves the orchestrator alone
AppUntouched == UNCHANGED <<app, runs, revoked, session>>

Payloads ==
    {[base64 |-> <<"AAAA">>, mimeType |-> "image/png"],
     [base64 |-> <<"BBBB">>, mimeType |-> "image/jpeg"]}
Masks == {<<>>, <<"MASK">>}
Prompts == {<<"Make it a watercolor">>}

GwEditImageInputs ==
    {[fn |-> "editImage", pc |-> "start", prompt |-> p, imageParts |-> imgs,
      maskBase64 |-> m, parts |-> <<>>,
      result |-> [ok |-> FALSE, message |-> <<>>, content |-> NoContent]] :
        p \in Prompts, imgs \in SeqsUpTo(Payloads, MaxImages), m \in Masks}

\* what each sub-call of a batch settles to: its own image, no image, or a
\* failed request
SubCallResponses(i) == {RespImage(OutNames[i]), RespTextOnly, RespNetwork}

GwBatchInputs ==
    {[fn |-> "batch", pc |-> "awaiting", emptyMessage |-> MsgNoVariations, n |-> BatchCount,
      settled |-> [i \in 1..BatchCount |-> EditImageSettle(rs[i])], order |-> <<>>,
      result |-> [state |-> "pending", message |-> <<>>, images |-> <<>>]] :
        rs \in {f \in [1..BatchCount -> UNION {SubCallResponses(i) : i \in 1..BatchCount}] :
                   \A i \in 1..BatchCount : f[i] \in SubCallResponses(i)}}
    \cup
    UNION {
      {[fn |-> "batch", pc |-> "awaiting", emptyMessage |-> MsgNoLookbook, n |-> numImages,
        settled |-> [i \in 1..numImages |-> EditImageSettle(rs[i])], order |-> <<>>,
        result |-> [state |-> "pending", message |-> <<>>, images |-> <<>>]] :
          rs \in {f \in [1..numImages -> UNION {SubCallResponses(i) : i \in 1..numImages}] :
                     \A i \in 1..numImages : f[i] \in SubCallResponses(i)}}
      : numImages \in 1..MaxNumImages}

GwVideoInputs == {[fn |-> "video", v |-> VideoStart]}

\* editImage builds its request and sends it
GwEditImageSend ==
    /\ gw.fn = "editImage" /\ gw.pc = "start"
    /\ gw' = [gw EXCEPT !.pc = "awaiting",
                        !.parts = EditImageParts(gw.prompt, gw.imageParts, gw.maskBase64)]
    /\ AppUntouched

\* the service answers the request of editImage
GwEditImageSettle ==
    /\ gw.fn = "editImage" /\ gw.pc = "awaiting"
    /\ \E response \in Responses("out1") :
          gw' = [gw EXCEPT !.pc = "settled", !.result = EditImageSettle(response)]
    /\ AppUntouched

\* one more editImage sub-call of the batch settles; the batch promise
\* settles with the first rejection or with the last fulfilment
GwBatchSubCallSettles ==
    /\ gw.fn = "batch"
    /\ \E i \in (1..gw.n) \ Range(gw.order) :
          LET order == Append(gw.order, i)
          IN gw' = [gw EXCEPT !.order = order,
                              !.result = IF gw.result.state = "pending"
                                         THEN BatchSettle(gw.emptyMessage, gw.n, gw.settled, order)
                                         ELSE @,
                              !.pc = IF Len(order) = gw.n THEN "settled" ELSE @]
    /\ AppUntouched

GwVideoSubmitted ==
    /\ gw.fn = "video" /\ gw.v.pc = "submitting"
    /\ \E answer \in VideoAnswers(gw.v) : gw' = [gw EXCEPT !.v = VideoSubmitted(gw.v, answer)]
    /\ AppUntouched

GwVideoWaited ==
    /\ gw.fn = "video" /\ gw.v.pc = "waiting"
    /\ gw' = [gw EXCEPT !.v = VideoWaited(gw.v)]
    /\ AppUntouched

GwVideoQueried ==
    /\ gw.fn = "video" /\ gw.v.pc = "querying"
    /\ \E answer \in VideoAnswers(gw.v) : gw' = [gw EXCEPT !.v = VideoQueried(gw.v, answer)]
    /\ AppUntouched

InitGateway ==
    /\ gw \in GwEditImageInputs \cup GwBatchInputs \cup GwVideoInputs
    /\ app = AppInitial
    /\ runs = <<>>
    /\ revoked = {}
    /\ session = {}

NextGateway ==
    \/ GwEditImageSend
    \/ GwEditImageSettle
    \/ GwBatchSubCallSettles
    \/ GwVideoSubmitted
    \/ GwVideoWaited
    \/ GwVideoQueried

SpecGateway == InitGateway /\ [][NextGateway]_vars

(***************************************************************************)
(* The catch blocks of the gateway on their own: a value is thrown inside  *)
(* the try block of a gateway function and its catch block delivers the    *)
(* rejection.                                                              *)
(***************************************************************************)

\* the provider's structured errors: the JSON text in the message of the
\* Error parses to {error: {code, status, message}}
ProviderMessages == {<<>>, <<"The provider's own words">>}
ProviderStatuses == {"RESOURCE_EXHAUSTED", "UNKNOWN", "UNAVAILABLE", "INVALID_ARGUMENT"}
ProviderCodes == {400, 429, 500, 503, 599}

StructuredError(message, status, code) ==
    [isError |-> TRUE, raw |-> <<"got status: ", status, " {json}">>,
     json |-> Some([error |-> Some([message |-> message, status |-> status,
                                    code |-> code])])]

\* what a try block can throw: an Error with a structured message, an Error
\* whose JSON has no error member, a plain Error, a value that is no Error
ThrownValues ==
    {StructuredError(m, s, c) : m \in ProviderMessages, s \in ProviderStatuses,
                                c \in ProviderCodes}
    \cup {[isError |-> TRUE, raw |-> <<"{\"ok\": false}">>, json |-> Some([error |-> None])],
          PlainError(<<"Failed to fetch">>),
          [isError |-> FALSE, raw |-> <<"a string">>, json |-> None]}

GatewayFunctions == {"editImage", "generateImageFromText", "generateVideo"}

\* part_000 144-146: the catch block of editImage
GwEditImageCatch ==
    /\ gw.fn = "editImage" /\ gw.pc = "thrown"
    /\ gw' = [gw EXCEPT !.pc = "rejected",
                        !.message = EditImageSettle(Thrown(gw.thrown)).message]
    /\ AppUntouched

\* part_000 233-235: the catch block of generateImageFromText
GwImageFromTextCatch ==
    /\ gw.fn = "generateImageFromText" /\ gw.pc = "thrown"
    /\ gw' = [gw EXCEPT !.pc = "rejected",
                        !.message = ImageFromTextSettle([throws |-> Some(gw.thrown),
                                                         images |-> <<>>]).message]
    /\ AppUntouched

\* part_000 285-292: the catch block of generateVideo
GwVideoCatch ==
    /\ gw.fn = "generateVideo" /\ gw.pc = "thrown"
    /\ gw' = [gw EXCEPT !.pc = "rejected",
                        !.message = VideoReject(VideoStart, gw.thrown).result]
    /\ AppUntouched

InitNormalize ==
    /\ gw \in {[fn |-> f, pc |-> "thrown", thrown |-> e, message |-> <<>>] :
                  f \in GatewayFunctions, e \in ThrownValues}
    /\ app = AppInitial
    /\ runs = <<>>
    /\ revoked = {}
    /\ session = {}

NextNormalize ==
    \/ GwEditImageCatch
    \/ GwImageFromTextCatch
    \/ GwVideoCatch

SpecNormalize == InitNormalize /\ [][NextNormalize]_vars


(***************************************************************************)
(* The orchestrator driven by a user and by the remote service: what the   *)
(* user may enter (bounded), which controls the render offers, and the     *)
(* answers that resume the runs in flight.                                 *)
(***************************************************************************)
ImgA == DataUrl("image/png", <<"AAAA">>)
ImgB == DataUrl("image/jpeg", <<"BBBB">>)
MaskUrl == DataUrl("image/png", <<"MASK">>)

PromptTexts == {<<>>, <<"a cat in the rain">>}
FieldTexts == {<<>>, <<"d-stroke", "a-acute", "d">>}
Galleries == {<<>>, <<ImgB, ImgA>>}
AspectRatios == {"16:9", "9:16"}
ImageAspectRatios == {"1:1", "3:4"}
DescriptionTexts == {<<>>, <<"a red coat">>}
NumImagesChoices == {1, 2, MaxNumImages}
OutputQualities == {"standard", "high", "ultra"}

\* the transformations one session goes through: any single one, or the
\* batch-candidate one and the free-text one
Sessions ==
    {{key} : key \in Keys} \cup {{"dynamicPolaroid", "customPrompt"}}

Selected == TransformationOf(app.selectedTransformation)

\* lines 726-864 (renderInputUI) and 940-970: which inputs are on screen
LookbookShown == app.selectedTransformation = "outfitStylist"
QrFormShown == app.selectedTransformation = "chibiQrCode"
GridUploaderShown ==
    /\ app.selectedTransformation # NULL
    /\ ~LookbookShown /\ ~QrFormShown /\ Selected.maxImages > 0
VideoFormShown ==
    /\ app.selectedTransformation # NULL
    /\ ~LookbookShown /\ ~QrFormShown /\ Selected.maxImages = 0 /\ Selected.isVideo
DualUploaderShown ==
    \/ QrFormShown
    \/ /\ app.selectedTransformation # NULL
       /\ ~LookbookShown /\ Selected.maxImages = 0 /\ ~Selected.isVideo
       /\ Selected.isMultiImage
MaskEditorShown ==
    /\ app.selectedTransformation # NULL
    /\ ~LookbookShown /\ ~QrFormShown /\ Selected.maxImages = 0 /\ ~Selected.isVideo
    /\ ~Selected.isMultiImage
PrimaryUploaderShown ==
    LookbookShown \/ VideoFormShown \/ DualUploaderShown \/ MaskEditorShown
PromptBoxShown ==
    \/ VideoFormShown
    \/ /\ app.selectedTransformation # NULL /\ ~LookbookShown
       /\ Selected.prompt = CUSTOM /\ ~Selected.isVideo

\* lines 1000-1063: which output is on screen
OptionsShown ==
    /\ app.selectedTransformation # NULL
    /\ ~app.isLoading /\ ~Truthy(app.error)
    /\ Len(app.generatedLookbookImages) = 0 /\ app.imageOptions # None
ResultShown ==
    /\ app.selectedTransformation # NULL
    /\ ~app.isLoading /\ ~Truthy(app.error)
    /\ app.imageOptions = None /\ app.generatedContent # None

\* the user fills in the form while no spinner is on screen
UserEdits == ~app.isLoading

\* the bound on the invocations in flight and on the length of history; a
\* session that goes through two transformations overlaps only a new batch
\* of candidates with the animation of an earlier candidate
CanStart ==
    /\ Len(runs) < MaxInFlight
    /\ \/ Cardinality(session) = 1
       \/ runs = <<>>
       \/ /\ app.selectedTransformation = "dynamicPolaroid"
          /\ \A i \in 1..Len(runs) : runs[i].kind = "animate"
    /\ Len(app.history) + Len(runs) < MaxHistory

\* a handler has run up to its first await or to its return
\* a variant of Launch in which a new invocation cancels those in flight
LaunchCancelling(outcome) ==
    /\ outcome.run # None => CanStart
    /\ Render(outcome.app)
    /\ runs' = IF outcome.run = None THEN runs ELSE <<outcome.run[1]>>
    /\ UNCHANGED session

Launch(outcome) ==
    /\ outcome.run # None => CanStart
    /\ Render(outcome.app)
    /\ runs' = IF outcome.run = None THEN runs ELSE Append(runs, outcome.run[1])
    /\ UNCHANGED session

RemoveAt(s, i) == SubSeq(s, 1, i - 1) \o SubSeq(s, i + 1, Len(s))

\* run i has run from one await to the next or to its end
Resume(i, outcome) ==
    /\ Render(outcome.app)
    /\ runs' = IF outcome.run = None THEN RemoveAt(runs, i)
               ELSE [runs EXCEPT ![i] = outcome.run[1]]
    /\ UNCHANGED session

\* a handler without an await has run
Handle(new) ==
    /\ Render(new)
    /\ UNCHANGED <<runs, session>>

SelectTransformation ==
    /\ app.selectedTransformation = NULL
    /\ \E i \in 1..Len(TRANSFORMATIONS) :
          /\ TRANSFORMATIONS[i].key \in session
          /\ Handle(handleSelectTransformation(app, TRANSFORMATIONS[i]))

PrimaryImageSelect ==
    /\ UserEdits /\ PrimaryUploaderShown
    /\ Handle(handlePrimaryImageSelect(app, ImgA))

SecondaryImageSelect ==
    /\ UserEdits /\ DualUploaderShown
    /\ Handle(handleSecondaryImageSelect(app, ImgB))

ClearPrimaryImage ==
    /\ PrimaryUploaderShown /\ Truthy(app.primaryImageUrl)
    /\ Handle(handleClearPrimaryImage(app))

ClearSecondaryImage ==
    /\ DualUploaderShown /\ Truthy(app.secondaryImageUrl)
    /\ Handle(handleClearSecondaryImage(app))

\* MultiImageGridUploader onImagesChange={setMultiImageUrls}
ChangeGallery ==
    /\ UserEdits /\ GridUploaderShown
    /\ \E urls \in Galleries :
          /\ Len(urls) <= Selected.maxImages
          /\ Handle([app EXCEPT !.multiImageUrls = urls])

\* ImageEditorCanvas onMaskChange={setMaskDataUrl}: the mask is drawn on the
\* primary image
ChangeMask ==
    /\ UserEdits /\ MaskEditorShown /\ Truthy(app.primaryImageUrl)
    /\ \E m \in {NoUrl, MaskUrl} : Handle([app EXCEPT !.maskDataUrl = m])

ChangePrompt ==
    /\ UserEdits /\ PromptBoxShown
    /\ \E p \in PromptTexts : Handle([app EXCEPT !.customPrompt = p])

ChangeAspectRatio ==
    /\ UserEdits /\ VideoFormShown
    /\ \E r \in AspectRatios : Handle([app EXCEPT !.aspectRatio = r])

ChangeImageAspectRatio ==
    /\ UserEdits /\ PromptBoxShown /\ ~VideoFormShown /\ ~Truthy(app.primaryImageUrl)
    /\ \E r \in ImageAspectRatios : Handle([app EXCEPT !.imageAspectRatio = r])

ChangeQrFields ==
    /\ UserEdits /\ QrFormShown
    /\ \E x \in FieldTexts :
          \/ Handle([app EXCEPT !.bankName = x])
          \/ Handle([app EXCEPT !.accountName = x])
          \/ Handle([app EXCEPT !.accountNumber = x])
          \/ Handle([app EXCEPT !.branch = x])

ChangeLookbookForm ==
    /\ UserEdits /\ LookbookShown
    /\ \/ \E d \in DescriptionTexts : Handle([app EXCEPT !.lookbookDescription = d])
       \/ \E n \in NumImagesChoices : Handle([app EXCEPT !.numImages = n])
       \/ \E q \in OutputQualities : Handle([app EXCEPT !.outputQuality = q])

\* lines 975-978 and 709-710: the button is disabled while isGenerateDisabled
Generate ==
    /\ ~isGenerateDisabled(app)
    /\ Launch(handleGenerate(app))

\* line 1041: the button of the options panel calls handleGenerateImage
Regenerate ==
    /\ OptionsShown
    /\ Launch(handleGenerateImage(app))

\* line 1028: onClick={() => setSelectedOption(url)}
SelectOption ==
    /\ OptionsShown
    /\ \E k \in {j \in 1..Len(app.imageOptions[1]) : j <= MaxPick} :
          Handle([app EXCEPT !.selectedOption = app.imageOptions[1][k]])

\* line 1049: disabled={!selectedOption || isLoading}
AnimateCandidate ==
    /\ OptionsShown
    /\ Truthy(app.selectedOption) /\ ~app.isLoading
    /\ Launch(handleGenerateDynamicVideo(app))

\* the image of the result on screen or of an entry of the history panel
UsableImages ==
    {app.history[k].imageUrl : k \in {j \in 1..Len(app.history) : Truthy(app.history[j].imageUrl)}}
    \cup (IF ResultShown /\ Truthy(app.generatedContent[1].imageUrl)
          THEN {app.generatedContent[1].imageUrl} ELSE {})

UseImageAsInput ==
    \E imageUrl \in UsableImages, converted \in BOOLEAN :
        Handle(handleUseImageAsInput(app, imageUrl, converted))

BackToSelection ==
    /\ app.selectedTransformation # NULL /\ ~LookbookShown
    /\ Handle(handleBackToSelection(app))

ResetApp ==
    /\ Render(handleResetApp(app))
    /\ UNCHANGED <<runs, session>>

\* the answers of the service to the editImage call of a run
RunResponses(name) == {RespTextImage(name), RespTextOnly, RespQuota}

\* the answers of the service to the step-2 editImage call of a two-step
\* run: an image, a safety block or a failed request
StepTwoResponses == {RespTextImage("out2"), RespSafety, RespNetwork}

\* the answers of the service to generateImages
TextToImageResponses ==
    {[throws |-> None, images |-> <<<<"out1">>>>],
     [throws |-> None, images |-> <<>>],
     [throws |-> Some(PlainError(<<"Failed to fetch">>)), images |-> <<>>]}

\* the orders in which n concurrent sub-calls may settle
Orders(n) == {f \in [1..n -> 1..n] : \A i, j \in 1..n : f[i] = f[j] => i = j}

\* what the sub-calls of a batch operation may answer
SubCallAnswers(n) ==
    {f \in [1..n -> UNION {SubCallResponses(i) : i \in 1..n}] :
        \A i \in 1..n : f[i] \in SubCallResponses(i)}

\* what generateImageEditsBatch may settle to
BatchOutcomes ==
    {BatchSettle(MsgNoVariations, BatchCount,
                 [i \in 1..BatchCount |-> EditImageSettle(rs[i])], order) :
        rs \in SubCallAnswers(BatchCount), order \in Orders(BatchCount)}

\* what generateLookbook may settle to, as pairs <<numImages, outcome>>
LookbookOutcomes ==
    UNION {{<<n, BatchSettle(MsgNoLookbook, n, [i \in 1..n |-> EditImageSettle(rs[i])],
                             order)>> :
               rs \in SubCallAnswers(n), order \in Orders(n)} : n \in 1..MaxNumImages}

\* most done=false answers the video job of a run gives
MaxRunPolls == 1

\* the answers of the video service to a run: as VideoAnswers, with one
\* error message, errors and download uris on the last answer only
RunVideoAnswers(v) ==
    {a \in VideoAnswers(v) :
        \/ a.throws # None
        \/ /\ a.done \/ v.notDone < MaxRunPolls
           /\ a.error \in {None, Some(<<"Quota exceeded for video">>)}
           /\ a.error # None => a.done
           /\ Truthy(a.uri) = (a.done /\ a.error = None)}

\* the editImage call of a templated, gallery or default run settles
RunEditSettles ==
    \E i \in 1..Len(runs) :
        /\ runs[i].kind \in {"chibiQrCode", "gallery", "default"}
        /\ \E response \in RunResponses("out1"), outcome \in WatermarkOutcomes :
              Resume(i, EditCompleted(app, runs[i], EditImageSettle(response), outcome))

RunTextToImageSettles ==
    \E i \in 1..Len(runs) :
        /\ runs[i].kind = "textToImage"
        /\ \E response \in TextToImageResponses, outcome \in WatermarkOutcomes :
              Resume(i, TextToImageCompleted(app, runs[i], ImageFromTextSettle(response),
                                             outcome))

RunStepOneSettles ==
    \E i \in 1..Len(runs) :
        /\ runs[i].kind = "twoStep" /\ runs[i].pc = "awaiting"
        /\ \E response \in RunResponses("out1"), outcome \in WatermarkOutcomes,
              loaded \in BOOLEAN :
              Resume(i, StepOneCompleted(app, runs[i], EditImageSettle(response), outcome,
                                         loaded))

RunStepTwoSettles ==
    \E i \in 1..Len(runs) :
        /\ runs[i].kind = "twoStep" /\ runs[i].pc = "awaiting2"
        /\ \E response \in StepTwoResponses, outcome \in WatermarkOutcomes :
              Resume(i, StepTwoCompleted(app, runs[i], EditImageSettle(response), outcome))

\* all sub-calls of the batch operation of a run have settled
RunBatchSettles ==
    \E i \in 1..Len(runs) :
        /\ runs[i].kind \in {"lookbook", "batch"}
        /\ \E batch \in (IF runs[i].kind = "lookbook"
                         THEN {p[2] : p \in {q \in LookbookOutcomes :
                                                q[1] = runs[i].request.count}}
                         ELSE BatchOutcomes),
              outcome \in WatermarkOutcomes :
              Resume(i, BatchCompleted(app, runs[i], batch, outcome))

RunVideoSubmitted ==
    \E i \in 1..Len(runs) :
        /\ runs[i].pc = "awaiting" /\ runs[i].v.pc = "submitting"
        /\ \E answer \in RunVideoAnswers(runs[i].v) :
              Resume(i, VideoAdvanced(app, runs[i], VideoSubmitted(runs[i].v, answer)))

RunVideoWaited ==
    \E i \in 1..Len(runs) :
        /\ runs[i].pc = "awaiting" /\ runs[i].v.pc = "waiting"
        /\ Resume(i, VideoAdvanced(app, runs[i], VideoWaited(runs[i].v)))

RunVideoQueried ==
    \E i \in 1..Len(runs) :
        /\ runs[i].pc = "awaiting" /\ runs[i].v.pc = "querying"
        /\ \E answer \in RunVideoAnswers(runs[i].v) :
              Resume(i, VideoAdvanced(app, runs[i], VideoQueried(runs[i].v, answer)))

RunFetchSettles ==
    \E i \in 1..Len(runs) :
        /\ runs[i].pc = "fetching"
        /\ \E outcome \in FetchOutcomes : Resume(i, FetchCompleted(app, runs[i], outcome))

Init ==
    /\ gw = GwIdle
    /\ app = AppInitial
    /\ runs = <<>>
    /\ revoked = {}
    /\ session \in Sessions

Next ==
    \/ SelectTransformation
    \/ PrimaryImageSelect
    \/ SecondaryImageSelect
    \/ ClearPrimaryImage
    \/ ClearSecondaryImage
    \/ ChangeGallery
    \/ ChangeMask
    \/ ChangePrompt
    \/ ChangeAspectRatio
    \/ ChangeImageAspectRatio
    \/ ChangeQrFields
    \/ ChangeLookbookForm
    \/ Generate
    \/ Regenerate
    \/ SelectOption
    \/ AnimateCandidate
    \/ UseImageAsInput
    \/ BackToSelection
    \/ ResetApp
    \/ RunEditSettles
    \/ RunTextToImageSettles
    \/ RunStepOneSettles
    \/ RunStepTwoSettles
    \/ RunBatchSettles
    \/ RunVideoSubmitted
    \/ RunVideoWaited
    \/ RunVideoQueried
    \/ RunFetchSettles

Spec == Init /\ [][Next]_vars

(***************************************************************************)
(* The invocations in flight left to themselves: the form was filled in    *)
(* and a generation triggered, once or, after a reset and a second         *)
(* filling, twice; from there only the calls in flight settle and the      *)
(* user may reset.  Every call in flight settles in the end, and the       *)
(* video job says done=false at most MaxRunPolls times.                    *)
(***************************************************************************)
\* the options panel after a batch of candidates, one of them picked
OptionsForms ==
    LET form == [AppInitial EXCEPT !.selectedTransformation = "dynamicPolaroid",
                                   !.multiImageUrls = <<ImgB, ImgA>>]
        options == WatermarkAll(<<DataUrl("image/png", <<"out1">>),
                                  DataUrl("image/png", <<"out2">>)>>, "marked")
    IN {[form EXCEPT !.imageOptions = Some(options), !.selectedOption = options[k]] :
           k \in 1..MaxPick}

\* a form that one of the handlers accepts, for each transformation
FilledForms ==
    {form \in {[AppInitial EXCEPT !.selectedTransformation = key,
                                  !.customPrompt = <<"a cat in the rain">>,
                                  !.primaryImageUrl = primary,
                                  !.maskDataUrl = mask] :
                  key \in {"customPrompt", "videoGeneration"},
                  primary \in {NoUrl, ImgA}, mask \in {NoUrl, MaskUrl}} :
        Truthy(form.maskDataUrl) => /\ Truthy(form.primaryImageUrl)
                                    /\ form.selectedTransformation = "customPrompt"}
    \cup {[AppInitial EXCEPT !.selectedTransformation = "chibiQrCode",
                             !.primaryImageUrl = ImgA, !.secondaryImageUrl = ImgB,
                             !.bankName = text, !.accountName = text,
                             !.accountNumber = text, !.branch = text] :
              text \in FieldTexts \ {<<>>}}
    \cup {[AppInitial EXCEPT !.selectedTransformation = "outfitStylist",
                             !.primaryImageUrl = ImgA,
                             !.lookbookDescription = <<"a red coat">>,
                             !.numImages = n] : n \in NumImagesChoices}
    \cup {[AppInitial EXCEPT !.selectedTransformation = key,
                             !.multiImageUrls = <<ImgB, ImgA>>] :
              key \in {k \in Keys : TransformationOf(k).maxImages > 0}}
    \cup {[AppInitial EXCEPT !.selectedTransformation = key,
                             !.primaryImageUrl = ImgA, !.secondaryImageUrl = ImgB] :
              key \in {k \in Keys : TransformationOf(k).isTwoStep}}

\* the handler the button of the form calls
Triggered(form) ==
    IF form.imageOptions # None THEN handleGenerateDynamicVideo(form)
    ELSE handleGenerate(form)

InitLive ==
    /\ gw = GwIdle
    /\ revoked = {}
    /\ \E first \in FilledForms \cup OptionsForms :
          /\ session = {first.selectedTransformation}
          /\ \/ /\ app = Triggered(first).app
                /\ runs = <<Triggered(first).run[1]>>
             \/ \E second \in FilledForms :
                   /\ second.selectedTransformation = first.selectedTransformation
                   /\ first \in FilledForms
                   /\ app = Triggered(second).app
                   /\ runs = <<Triggered(first).run[1], Triggered(second).run[1]>>

NextLive ==
    \/ ResetApp
    \/ RunEditSettles
    \/ RunTextToImageSettles
    \/ RunStepOneSettles
    \/ RunStepTwoSettles
    \/ RunBatchSettles
    \/ RunVideoSubmitted
    \/ RunVideoWaited
    \/ RunVideoQueried
    \/ RunFetchSettles

\* every promise a run awaits settles: the gateway calls, the 10 s timer,
\* the fetch of the download URL
SpecLive ==
    /\ InitLive /\ [][NextLive]_vars
    /\ WF_vars(RunEditSettles) /\ WF_vars(RunTextToImageSettles)
    /\ WF_vars(RunStepOneSettles) /\ WF_vars(RunStepTwoSettles)
    /\ WF_vars(RunBatchSettles) /\ WF_vars(RunVideoSubmitted)
    /\ WF_vars(RunVideoWaited) /\ WF_vars(RunVideoQueried)
    /\ WF_vars(RunFetchSettles)


(***************************************************************************)
(* Claims about the gateway, checked under SpecGateway.                    *)
(***************************************************************************)

\* C1: a batch operation (generateImageEditsBatch with 4 sub-calls,
\* generateLookbook with 1 to 4) succeeds with exactly the images of the
\* succeeding sub-calls whenever at least one sub-call produces an image, and
\* fails only when every sub-call fails.
BatchToleratesPartialFailure ==
    (gw.fn = "batch" /\ gw.pc = "settled") =>
        LET succeeded == {i \in 1..gw.n : gw.settled[i].ok}
        IN /\ succeeded # {} =>
                 /\ gw.result.state = "fulfilled"
                 /\ Range(gw.result.images) = {gw.settled[i].content.imageUrl : i \in succeeded}
                 /\ Len(gw.result.images) = Cardinality(succeeded)
           /\ gw.result.state = "rejected" => succeeded = {}

\* C2: for N >= 1 images the request parts of editImage are images[0], then
\* the mask when there is one, then images[1..N-1] in order, then the text;
\* there is exactly one text part and it is the last part.
EditImagePartOrder ==
    (gw.fn = "editImage" /\ gw.pc # "start" /\ Len(gw.imageParts) >= 1) =>
        LET n == Len(gw.imageParts)
            m == IF gw.maskBase64 # <<>> THEN 1 ELSE 0
        IN /\ Len(gw.parts) = n + m + 1
           /\ gw.parts[1] = InlinePart(gw.imageParts[1])
           /\ m = 1 => gw.parts[2] = [inlineData |-> [data |-> gw.maskBase64,
                                                      mimeType |-> "image/png"]]
           /\ \A i \in 2..n : gw.parts[i + m] = InlinePart(gw.imageParts[i])
           /\ {i \in 1..Len(gw.parts) : IsTextPart(gw.parts[i])} = {n + m + 1}

EditImagePartOrderWitness ==
    /\ gw.fn = "editImage" /\ gw.pc = "awaiting"
    /\ gw.maskBase64 # <<>>
    /\ Len(gw.imageParts) = 3
    /\ gw.imageParts[2] # gw.imageParts[3]

\* C5: when generateVideo returns, it has waited exactly as many times as the
\* job said done=false (the submission's answer included) and has queried
\* the status exactly once after each wait; it returns the download
\* reference of the last answer.
VideoPollCount ==
    gw.fn = "video" =>
        /\ gw.v.pc = "returned" =>
              /\ gw.v.waits = gw.v.notDone
              /\ gw.v.queries = gw.v.notDone
              /\ gw.v.result = gw.v.operation.uri \o <<"&key=">>
        /\ gw.v.pc = "querying" => gw.v.waits = gw.v.queries + 1
        /\ gw.v.pc # "querying" => gw.v.waits = gw.v.queries

VideoPollCountWitness ==
    /\ gw.fn = "video" /\ gw.v.pc = "returned"
    /\ gw.v.notDone = 2 /\ gw.v.waits = 2


(***************************************************************************)
(* Claims about the orchestrator, checked under Spec.                      *)
(***************************************************************************)

\* C3: whenever the inputs do not meet the requirement that the validation
\* table states for the selected transformation's shape, a press of a
\* generate button starts no gateway operation and leaves history as it is.
ValidationGate ==
    [][LET T == Selected
           both == Truthy(app.primaryImageUrl) /\ Truthy(app.secondaryImageUrl)
           requirementMet ==
               IF app.selectedTransformation = NULL THEN FALSE
               ELSE IF T.key = "chibiQrCode"
                    THEN /\ Truthy(Trim(app.bankName)) /\ Truthy(Trim(app.accountName))
                         /\ Truthy(Trim(app.accountNumber)) /\ Truthy(Trim(app.branch))
               ELSE IF T.isVideo THEN Truthy(Trim(app.customPrompt))
               ELSE IF T.maxImages > 0 THEN Len(app.multiImageUrls) >= 1
               ELSE IF T.isTwoStep THEN both
               ELSE IF T.prompt = CUSTOM /\ ~Truthy(app.primaryImageUrl)
                    THEN Truthy(Trim(app.customPrompt))
               ELSE IF T.isMultiImage /\ ~T.isSecondaryOptional THEN both
               ELSE Truthy(app.primaryImageUrl)
       IN ((Generate \/ Regenerate) /\ ~requirementMet)
              => (runs' = runs /\ app'.history = app.history)]_vars

\* C4: when the step-1 editImage call of a two-step run fails or returns no
\* image, the run ends there: it never issues the step-2 call, the result
\* slot and history stay as they were, and the failure is reported.
StepOneFailureIsFatal ==
    [][\A i \in 1..Len(runs) :
         \A response \in RunResponses("out1"), outcome \in WatermarkOutcomes,
            loaded \in BOOLEAN :
            LET settle == EditImageSettle(response)
            IN (/\ runs[i].kind = "twoStep" /\ runs[i].pc = "awaiting"
                /\ ~settle.ok \/ ~Truthy(settle.content.imageUrl)
                /\ Resume(i, StepOneCompleted(app, runs[i], settle, outcome, loaded)))
               => /\ runs' = RemoveAt(runs, i)
                  /\ app'.generatedContent = app.generatedContent
                  /\ app'.history = app.history
                  /\ Truthy(app'.error)]_vars

\* step 1 of a two-step run was answered without an image (only step 1 is):
\* the run is over, nothing is in the result slot or in history
StepOneFailureWitness ==
    /\ app.selectedTransformation = "colorPalette"
    /\ app.error = MsgNoImage
    /\ runs = <<>>
    /\ app.generatedContent = None /\ app.history = <<>> /\ ~app.isLoading

\* C6: when the video job of a run answers with an error status,
\* generateVideo rejects without having reached the extraction of the
\* download link, and the handler ends: it fetches nothing (so it makes no
\* object URL), writes no result, pushes nothing to history, and reports
\* the failure.
VideoErrorStatusIsFatal ==
    [][\A i \in 1..Len(runs) :
         \A answer \in RunVideoAnswers(runs[i].v) :
            LET v == IF runs[i].v.pc = "submitting"
                     THEN VideoSubmitted(runs[i].v, answer)
                     ELSE VideoQueried(runs[i].v, answer)
            IN (/\ runs[i].pc = "awaiting" /\ runs[i].v.pc \in {"submitting", "querying"}
                /\ answer.throws = None /\ answer.error # None
                /\ Resume(i, VideoAdvanced(app, runs[i], v)))
               => /\ v.pc = "rejected" /\ ~v.extracted
                  /\ runs' = RemoveAt(runs, i)
                  /\ app'.generatedContent = app.generatedContent
                  /\ app'.history = app.history
                  /\ Truthy(app'.error)]_vars

VideoErrorStatusWitness ==
    /\ app.selectedTransformation = "videoGeneration"
    /\ app.error = <<"Quota exceeded for video">>
    /\ runs = <<>>
    /\ app.generatedContent = None /\ app.history = <<>> /\ ~app.isLoading

\* C7: once the user has reset the app or left the transformation a video
\* run was started for, what that run gets back later (an answer of the
\* job, the downloaded file) is written neither to the result slot, nor to
\* the error slot, nor to history.
LateVideoResultDropped ==
    [][\A i \in 1..Len(runs) :
         (/\ runs[i].kind \in {"video", "animate"}
          /\ app.selectedTransformation # runs[i].t
          /\ \/ /\ runs[i].pc = "awaiting" /\ runs[i].v.pc \in {"submitting", "querying"}
                /\ \E answer \in RunVideoAnswers(runs[i].v) :
                      Resume(i, VideoAdvanced(app, runs[i],
                                    IF runs[i].v.pc = "submitting"
                                    THEN VideoSubmitted(runs[i].v, answer)
                                    ELSE VideoQueried(runs[i].v, answer)))
             \/ /\ runs[i].pc = "fetching"
                /\ \E outcome \in FetchOutcomes :
                      Resume(i, FetchCompleted(app, runs[i], outcome)))
         => /\ app'.generatedContent = app.generatedContent
            /\ app'.error = app.error
            /\ app'.history = app.history]_vars

\* C8: every successful completion of a single-result run (templated,
\* text-to-image, gallery, two-step, default, direct video, animate) puts
\* exactly one new entry in front of history, the entries already there
\* keeping their order, and that entry is the one in the result slot.
HistoryPush ==
    [][\A i \in 1..Len(runs) :
         (\/ /\ runs[i].kind \in {"chibiQrCode", "gallery", "default"}
             /\ \E response \in RunResponses("out1"), outcome \in WatermarkOutcomes :
                   /\ EditImageSettle(response).ok
                   /\ Resume(i, EditCompleted(app, runs[i], EditImageSettle(response),
                                              outcome))
          \/ /\ runs[i].kind = "textToImage"
             /\ \E response \in TextToImageResponses, outcome \in WatermarkOutcomes :
                   /\ ImageFromTextSettle(response).ok
                   /\ Resume(i, TextToImageCompleted(app, runs[i],
                                                     ImageFromTextSettle(response), outcome))
          \/ /\ runs[i].kind = "twoStep" /\ runs[i].pc = "awaiting2"
             /\ \E response \in StepTwoResponses, outcome \in WatermarkOutcomes :
                   /\ EditImageSettle(response).ok
                   /\ Resume(i, StepTwoCompleted(app, runs[i], EditImageSettle(response),
                                                 outcome))
          \/ /\ runs[i].kind \in {"video", "animate"} /\ runs[i].pc = "fetching"
             /\ Resume(i, FetchCompleted(app, runs[i], "ok")))
         => /\ Len(app'.history) = Len(app.history) + 1
            /\ Tail(app'.history) = app.history
            /\ app'.generatedContent = Some(Head(app'.history))]_vars

\* a second result has been pushed in front of an earlier, different one
HistoryPushWitness ==
    /\ Len(app.history) = 2
    /\ app.history[1] # app.history[2]
    /\ app.generatedContent = Some(app.history[1])
    /\ runs = <<>>

\* C9: a reset leaves history empty and leaves no object URL of a video of
\* the session unrevoked.
ResetEmptiesHistory ==
    [][ResetApp => /\ app'.history = <<>>
                   /\ VideoUrlsOf(app) \subseteq revoked']_vars

\* C10: the object URL of a video is not revoked while its entry is still in
\* history or is the current result.
LiveVideoHandlesKept ==
    \A url \in VideoUrlsOf(app) : url \notin revoked


\* C11: whenever an invocation of a pipeline finishes, on any path (success,
\* validation failure, gateway failure, step failure), the busy flag is off
\* and the progress message is empty.
FinallyContract ==
    [][(\/ (Generate \/ Regenerate \/ AnimateCandidate) /\ runs' = runs
        \/ Len(runs') < Len(runs))
       => /\ ~app'.isLoading
          /\ app'.loadingMessage = <<>>]_vars


\* C12: when a stage of the watermark pipeline throws on a non-null image,
\* the run still completes as a success: the result slot and the head of
\* history hold the image exactly as the gateway returned it, not a signed
\* intermediate, and no error is set.
WatermarkFailsInward ==
    [][\A i \in 1..Len(runs) :
         \A response \in RunResponses("out1"), outcome \in {"embedThrows", "overlayThrows"} :
            LET settle == EditImageSettle(response)
            IN (/\ runs[i].kind \in {"chibiQrCode", "gallery", "default"}
                /\ settle.ok /\ Truthy(settle.content.imageUrl)
                /\ Resume(i, EditCompleted(app, runs[i], settle, outcome)))
               => /\ app'.generatedContent # None
                  /\ app'.generatedContent[1].imageUrl = settle.content.imageUrl
                  /\ app'.history = <<app'.generatedContent[1]>> \o app.history
                  /\ app'.error = app.error
                  /\ runs' = RemoveAt(runs, i)]_vars

\* a result whose image carries neither the signature nor the overlay is on
\* screen and in history, with no error
WatermarkFailsInwardWitness ==
    /\ app.generatedContent # None
    /\ Truthy(app.generatedContent[1].imageUrl)
    /\ LET payload == app.generatedContent[1].imageUrl[2]
       IN payload[Len(payload)] \notin {"+signature", "+overlay"}
    /\ app.history # <<>> /\ Head(app.history) = app.generatedContent[1]
    /\ ~Truthy(app.error)
    /\ Truthy(app.generatedContent[1].originalImageUrl)
    /\ ~Truthy(app.generatedContent[1].secondaryImageUrl)
    /\ runs = <<>>


(***************************************************************************)
(* The display order of the transformations (App.tsx 31-51), on its own:   *)
(* what localStorage holds under 'transformationOrder' when the component  *)
(* mounts, and the list the initializer of the state gives.                *)
(***************************************************************************)

MaxSavedKeys == 3

\* the keys a saved order can hold: those of the catalog and one of an
\* effect that is no longer in it
SavedKeys == Keys \cup {"retiredEffect"}

\* the item is absent (or the empty string), or its text fails in the try
\* block (JSON.parse throws, or the value has no map), or it is an array
SavedOrders ==
    {[stored |-> FALSE, parses |-> FALSE, orderedKeys |-> <<>>],
     [stored |-> TRUE, parses |-> FALSE, orderedKeys |-> <<>>]}
    \cup {[stored |-> TRUE, parses |-> TRUE, orderedKeys |-> ks] :
             ks \in SeqsUpTo(SavedKeys, MaxSavedKeys)}

\* orderedKeys.map(key => transformationMap.get(key)).filter(t => !!t)
RECURSIVE OrderedTransformations(_)
OrderedTransformations(orderedKeys) ==
    IF orderedKeys = <<>> THEN <<>>
    ELSE (IF Head(orderedKeys) \in Keys THEN <<TransformationOf(Head(orderedKeys))>>
          ELSE <<>>) \o OrderedTransformations(Tail(orderedKeys))

\* TRANSFORMATIONS.filter(t => !savedKeysSet.has(t.key))
RECURSIVE NewTransformations(_, _)
NewTransformations(catalog, savedKeysSet) ==
    IF catalog = <<>> THEN <<>>
    ELSE (IF Head(catalog).key \notin savedKeysSet THEN <<Head(catalog)>> ELSE <<>>)
         \o NewTransformations(Tail(catalog), savedKeysSet)

\* a variant of InitialTransformations that lists the saved transformations
\* in the order of the catalog
InitialTransformationsCatalogOrder(saved) ==
    IF saved.stored /\ saved.parses
    THEN NewTransformations(TRANSFORMATIONS, Keys \ Range(saved.orderedKeys))
         \o NewTransformations(TRANSFORMATIONS, Range(saved.orderedKeys))
    ELSE TRANSFORMATIONS

\* lines 31-51: the initializer of the transformations state
InitialTransformations(saved) ==
    IF saved.stored /\ saved.parses
    THEN OrderedTransformations(saved.orderedKeys)
         \o NewTransformations(TRANSFORMATIONS, Range(saved.orderedKeys))
    ELSE TRANSFORMATIONS

\* transformations.map(t => t.key)
KeysOf(list) == [i \in 1..Len(list) |-> list[i].key]

\* a variant of SaveOrderEffect that shows the failure of setItem to the user
SaveOrderEffectSurfaces(a, saves) ==
    IF saves
    THEN [a EXCEPT !.storage = [stored |-> TRUE, parses |-> TRUE,
                                orderedKeys |-> KeysOf(a.transformations)]]
    ELSE [a EXCEPT !.error = <<"Failed to save transformation order to localStorage">>]

\* lines 90-97: the effect that follows every change of transformations;
\* setItem stores the keys, or throws and the catch block logs
SaveOrderEffect(a, saves) ==
    IF saves
    THEN [a EXCEPT !.storage = [stored |-> TRUE, parses |-> TRUE,
                                orderedKeys |-> KeysOf(a.transformations)]]
    ELSE a

\* the component mounts: the initializer runs, then the effect
Mounted(a, saves) ==
    SaveOrderEffect([a EXCEPT !.pc = "mounted",
                              !.transformations = InitialTransformations(a.savedOrder)],
                    saves)

LoadTransformations ==
    /\ app.pc = "mounting"
    /\ \E saves \in BOOLEAN : app' = Mounted(app, saves)
    /\ UNCHANGED <<gw, runs, revoked, session>>

\* the furthest place of the list a card is dragged from or to
MaxDragIndex == 3

\* the list with the cards at places i and j exchanged
SwapCards(list, i, j) ==
    [k \in 1..Len(list) |-> IF k = i THEN list[j] ELSE IF k = j THEN list[i] ELSE list[k]]

\* line 907: onOrderChange={setTransformations}, then the effect
Reordered(a, i, j, saves) ==
    SaveOrderEffect([a EXCEPT !.pc = "reordered",
                              !.transformations = SwapCards(a.transformations, i, j)],
                    saves)

ReorderTransformations ==
    /\ app.pc \in {"mounted", "reordered"}
    /\ \E i \in 1..MaxDragIndex, j \in 1..MaxDragIndex, saves \in BOOLEAN :
          /\ i < j /\ j <= Len(app.transformations)
          /\ app' = Reordered(app, i, j, saves)
    /\ UNCHANGED <<gw, runs, revoked, session>>

\* savedOrder is what the initializer reads and storage what localStorage
\* holds under 'transformationOrder'
InitOrder ==
    /\ gw = GwIdle
    /\ app \in {[pc |-> "mounting", savedOrder |-> saved, storage |-> saved,
                  transformations |-> <<>>, error |-> <<>>] :
                   saved \in SavedOrders}
    /\ runs = <<>>
    /\ revoked = {}
    /\ session = {}

NextOrder ==
    \/ LoadTransformations
    \/ ReorderTransformations

SpecOrder == InitOrder /\ [][NextOrder]_vars

(***************************************************************************)
(* formatBankText (App.tsx 21-27) on its own: a text is normalized, and    *)
(* the result is normalized again.                                         *)
(***************************************************************************)

MaxTextLen == 3

\* ASCII letters of both cases, a digit, the space, Vietnamese letters with
\* one and with two marks, and the D-with-stroke of both cases
UpperAscii == {"A", "D", "N", "7", " "}
Alphabet ==
    UpperAscii \cup {"a", "d", "n", "a-acute", "A-acute", "e-circumflex-acute",
                     "E-circumflex-acute", "o-horn", "O-horn", "d-stroke", "D-stroke"}

FormatOnce ==
    /\ app.pc = "typed"
    /\ app' = [app EXCEPT !.pc = "once", !.once = formatBankText(app.text)]
    /\ UNCHANGED <<gw, runs, revoked, session>>

FormatAgain ==
    /\ app.pc = "once"
    /\ app' = [app EXCEPT !.pc = "twice", !.twice = formatBankText(app.once)]
    /\ UNCHANGED <<gw, runs, revoked, session>>

InitFormat ==
    /\ gw = GwIdle
    /\ app \in {[pc |-> "typed", text |-> text, once |-> <<>>, twice |-> <<>>] :
                   text \in SeqsUpTo(Alphabet, MaxTextLen)}
    /\ runs = <<>>
    /\ revoked = {}
    /\ session = {}

NextFormat ==
    \/ FormatOnce
    \/ FormatAgain

SpecFormat == InitFormat /\ [][NextFormat]_vars

(***************************************************************************)
(* The substitution of the fields into a template (App.tsx 330-338) on its *)
(* own, for templates other than the one of the catalog.                   *)
(***************************************************************************)

MaxTemplateLen == 3

Placeholders == {"{{bankName}}", "{{accountName}}", "{{accountNumber}}", "{{branch}}"}

\* a template is a text with placeholders in it, in any number and order
Templates == SeqsUpTo(Placeholders \cup {"Pay to "}, MaxTemplateLen)

\* what passes the validation of line 324: no field is empty
FilledFields == {<<"d-stroke", "a-acute">>, <<"7">>}

\* lines 330-338: the fields are formatted and put into the template
SubstituteFields ==
    /\ app.pc = "filled"
    /\ app' = [app EXCEPT !.pc = "substituted",
                          !.prompt = QrPrompt(app.template, app.bankName, app.accountName,
                                              app.accountNumber, app.branch)]
    /\ UNCHANGED <<gw, runs, revoked, session>>

InitTemplate ==
    /\ gw = GwIdle
    /\ app \in {[pc |-> "filled", template |-> template, bankName |-> bankName,
                 accountName |-> accountName, accountNumber |-> accountNumber,
                 branch |-> branch, prompt |-> <<>>] :
                   template \in Templates, bankName \in FilledFields,
                   accountName \in FilledFields, accountNumber \in FilledFields,
                   branch \in FilledFields}
    /\ runs = <<>>
    /\ revoked = {}
    /\ session = {}

NextTemplate ==
    \/ SubstituteFields

SpecTemplate == InitTemplate /\ [][NextTemplate]_vars

\* the structured errors the translator recognises: the JSON has an error
\* member with a non-empty message
Recognised(error) ==
    /\ error.isError /\ error.json # None /\ error.json[1].error # None
    /\ Truthy(error.json[1].error[1].message)

\* C13: every value thrown inside editImage, generateImageFromText or
\* generateVideo is delivered as a rejection whose message is (a) the fixed
\* rate-limit message for a recognised structured error of status
\* RESOURCE_EXHAUSTED, whatever its code, (c) the provider's message for a
\* recognised structured error that is neither that nor a server condition,
\* and the Error's own message for any other Error, (d) the fixed generic
\* message of the function for a value that is no Error.
ErrorNormalization ==
    (gw.fn \in GatewayFunctions /\ gw.pc = "rejected") =>
        LET error == gw.thrown
        IN IF ~error.isError
           THEN gw.message = IF gw.fn = "generateVideo" THEN MsgVideoUnknown
                             ELSE MsgUnknownApi
           ELSE IF ~Recognised(error) THEN gw.message = error.raw
           ELSE LET e == error.json[1].error[1]
                IN /\ e.status = "RESOURCE_EXHAUSTED" => gw.message = MsgRateLimit
                   /\ (e.status \notin {"RESOURCE_EXHAUSTED", "UNKNOWN"} /\ e.code # 500)
                         => gw.message = e.message

\* a rate-limit error that also carries code 500 has been delivered by
\* generateVideo with the rate-limit message
ErrorNormalizationWitness ==
    /\ gw.fn = "generateVideo" /\ gw.pc = "rejected"
    /\ Recognised(gw.thrown)
    /\ gw.thrown.json[1].error[1].status = "RESOURCE_EXHAUSTED"
    /\ gw.thrown.json[1].error[1].code = 500
    /\ gw.message = MsgRateLimit

\* C14: every recognised structured error whose code is in 500..599 or whose
\* status is UNKNOWN, and that is not a rate-limit error, is delivered with
\* the fixed server message.
ServerErrorNormalization ==
    (gw.fn \in GatewayFunctions /\ gw.pc = "rejected" /\ Recognised(gw.thrown)) =>
        LET e == gw.thrown.json[1].error[1]
        IN (e.status # "RESOURCE_EXHAUSTED" /\ (e.code \in 500..599 \/ e.status = "UNKNOWN"))
              => gw.message = MsgServer


\* C15: at most one invocation of a generation pipeline is in flight at any
\* time.
SingleGenerationInFlight == Len(runs) <= 1


\* C16: when a saved order P is read, the display order is the keys of P
\* that are in the catalog, in P's order, followed by the keys of the
\* catalog absent from P, in the catalog's order; every key of the catalog
\* is in it and no other.
DisplayOrderResolution ==
    (app.pc = "mounted" /\ app.savedOrder.stored /\ app.savedOrder.parses) =>
        LET P == app.savedOrder.orderedKeys
            C == KeysOf(TRANSFORMATIONS)
            R == KeysOf(app.transformations)
        IN /\ R = SelectSeq(P, LAMBDA k : k \in Range(C))
                  \o SelectSeq(C, LAMBDA k : k \notin Range(P))
           /\ Range(R) = Range(C)

\* a saved order that holds two keys of the catalog against the catalog's
\* order, and a key that is no longer in it
DisplayOrderResolutionWitness ==
    /\ app.pc = "mounted"
    /\ app.savedOrder.orderedKeys = <<"chibiQrCode", "retiredEffect", "customPrompt">>
    /\ SubSeq(KeysOf(app.transformations), 1, 3)
          = <<"chibiQrCode", "customPrompt", "outfitStylist">>
    /\ Len(app.transformations) = Len(TRANSFORMATIONS)


\* C17: normalizing a normalized text gives the same text, and normalizing a
\* text of upper-case ASCII letters, digits and spaces gives it back.
NormalizationIdempotent ==
    /\ app.pc = "twice" => app.twice = app.once
    /\ (app.pc \in {"once", "twice"} /\ Range(app.text) \subseteq UpperAscii)
          => app.once = app.text

\* a text with a lower-case D-with-stroke and a letter with two marks has
\* been normalized twice
NormalizationIdempotentWitness ==
    /\ app.pc = "twice"
    /\ app.text = <<"d-stroke", "e-circumflex-acute", "7">>
    /\ app.once = <<"D", "E", "7">>
    /\ app.twice = app.once


\* C18: the prompt the templated pipeline sends to editImage is the template
\* with each of its four fields (bankName, accountName, accountNumber,
\* branch) replaced by the normalization of what the user typed.
NormalizedFieldsOnly ==
    [][(/\ Generate
        /\ app.selectedTransformation = "chibiQrCode"
        /\ Len(runs') > Len(runs))
       => runs'[Len(runs')].request.prompt
             = QrPrompt(Selected.prompt, app.bankName, app.accountName,
                        formatBankText(app.accountNumber), app.branch)]_vars


\* C19: for every template, one with a repeated placeholder included, and
\* every choice of non-empty fields, the prompt made from them holds no
\* placeholder.
PlaceholdersResolved ==
    app.pc = "substituted" => Range(app.prompt) \cap Placeholders = {}


\* C20: the images a batch operation returns are in the order in which its
\* sub-calls completed.
BatchCompletionOrder ==
    (gw.fn = "batch" /\ gw.result.state = "fulfilled") =>
        gw.result.images = [k \in 1..gw.n |-> gw.settled[gw.order[k]].content.imageUrl]

\* C20, as the code has it: the images a batch operation returns are in the
\* order of the requests, whatever the order in which the sub-calls
\* completed.
BatchRequestOrder ==
    (gw.fn = "batch" /\ gw.result.state = "fulfilled") =>
        gw.result.images = [i \in 1..gw.n |-> gw.settled[i].content.imageUrl]

\* sub-call 2 completed before sub-call 1, and the image of sub-call 1 is
\* the first of the batch
BatchRequestOrderWitness ==
    /\ gw.fn = "batch" /\ gw.result.state = "fulfilled"
    /\ gw.n >= 2 /\ gw.order[1] = 2
    /\ gw.result.images[1] = gw.settled[1].content.imageUrl
    /\ gw.result.images[1] # gw.settled[2].content.imageUrl


\* C21: editImage never fulfils with a null imageUrl: an answer without an
\* image part rejects, and when its finish reason is SAFETY the message
\* names every category rated blocked, no category rated otherwise, and
\* "Unknown" exactly when no category is rated blocked.
EditImageNeverNullImage ==
    [][\A response \in Responses("out1") :
         (/\ GwEditImageSettle
          /\ response.throws = None
          /\ gw'.result = EditImageSettle(response))
         => LET hasImage == \E k \in 1..Len(response.parts) : IsInlinePart(response.parts[k])
                ratings == response.safetyRatings
                named == Range(gw'.result.message)
            IN /\ gw'.result.ok => Truthy(gw'.result.content.imageUrl)
               /\ ~hasImage => ~gw'.result.ok
               /\ (~hasImage /\ response.finishReason = "SAFETY") =>
                     /\ \A k \in 1..Len(ratings) :
                           ratings[k].category \in named <=> ratings[k].blocked
                     /\ "Unknown" \in named
                           <=> ~\E k \in 1..Len(ratings) : ratings[k].blocked]_vars

\* editImage has rejected a refusal with two blocked categories, named in
\* the order of the ratings
EditImageNeverNullImageWitness ==
    /\ gw.fn = "editImage" /\ gw.pc = "settled" /\ ~gw.result.ok
    /\ gw.result.content = NoContent
    /\ gw.result.message =
          <<"The request was blocked for safety reasons. Categories: ",
            "HARM_CATEGORY_HARASSMENT", ", ", "HARM_CATEGORY_DANGEROUS_CONTENT",
            ". Please modify your prompt or image.">>


\* C22: in every state, handleGenerateDynamicVideo leaves no call in flight
\* and sets an error when no candidate is selected or the transformation
\* has no videoPrompt; otherwise it leaves exactly one generateVideo call in
\* flight, made with the selected candidate, the videoPrompt and the aspect
\* ratio 9:16.
AnimateCandidateContract ==
    LET outcome == handleGenerateDynamicVideo(app)
    IN IF \/ ~Truthy(app.selectedOption)
          \/ app.selectedTransformation = NULL
          \/ ~Truthy(Selected.videoPrompt)
       THEN /\ outcome.run = None
            /\ Truthy(outcome.app.error)
            /\ ~outcome.app.isLoading \/ app.isLoading
       ELSE /\ outcome.run # None
            /\ outcome.run[1].request.op = "generateVideo"
            /\ outcome.run[1].request.count = 1
            /\ outcome.run[1].request.imageParts = <<ImagePayloadOf(app.selectedOption)>>
            /\ outcome.run[1].request.prompt = Selected.videoPrompt
            /\ outcome.run[1].request.aspectRatio = "9:16"
            /\ outcome.run[1].v.pc = "submitting"

\* the animation of a candidate is in flight with 9:16 while the video form
\* holds 16:9
AnimateCandidateWitness ==
    /\ Len(runs) = 1 /\ runs[1].kind = "animate"
    /\ runs[1].request.aspectRatio = "9:16"
    /\ app.aspectRatio = "16:9"
    /\ runs[1].request.imageParts # <<>>
    /\ app.isLoading


\* the batch operations that fulfil
FulfilledBatches ==
    {b \in BatchOutcomes \cup {p[2] : p \in LookbookOutcomes} : b.state = "fulfilled"}

\* C23: a lookbook run and a batch-candidate run never push to history and
\* put no result in the result slot (the start of the handler only clears
\* it); when the run succeeds, a lookbook run changes the lookbook images
\* only and a batch-candidate run changes the candidates and the selected
\* candidate only, besides the busy flag and the progress message.
SetsStayOutOfHistory ==
    [][/\ ((Selected.key = "outfitStylist" \/ Selected.isMultiStepVideo)
           /\ app'.isLoading /\ ~app.isLoading
           /\ (Generate \/ Regenerate))
          => /\ app'.history = app.history
             /\ app'.generatedContent = None
       /\ \A i \in {k \in 1..Len(runs) : runs[k].kind \in {"lookbook", "batch"}} :
          \A batch \in FulfilledBatches, outcome \in WatermarkOutcomes :
            Resume(i, BatchCompleted(app, runs[i], batch, outcome))
            => LET written == IF runs[i].kind = "lookbook"
                              THEN {"generatedLookbookImages"}
                              ELSE {"imageOptions", "selectedOption"}
               IN /\ \A field \in DOMAIN app \ (written \cup {"isLoading", "loadingMessage"}) :
                        app'[field] = app[field]
                  /\ runs[i].kind = "lookbook"
                        => Len(app'.generatedLookbookImages) = Len(batch.images)
                  /\ runs[i].kind = "batch"
                        => /\ app'.imageOptions # None
                           /\ Len(app'.imageOptions[1]) = Len(batch.images)
                           /\ app'.selectedOption = NoUrl]_vars

\* a second set of candidates is on screen, after the animation of a
\* candidate of the first: history holds the video alone and the result
\* slot is empty
SetsStayOutOfHistoryWitness ==
    /\ app.imageOptions # None /\ Len(app.imageOptions[1]) = BatchCount
    /\ Len(app.history) = 1 /\ Truthy(app.history[1].videoUrl)
    /\ app.generatedContent = None
    /\ runs = <<>> /\ ~app.isLoading


\* C24: no step removes, reorders or modifies an entry of history: a step
\* leaves history as it is or puts one entry in front of it; and a run that
\* fills the empty result slot puts that result in front of history even
\* when history already holds an identical one.
HistoryAppendOnly ==
    [][/\ \/ app'.history = app.history
          \/ /\ app'.history # <<>>
             /\ Tail(app'.history) = app.history
       /\ (/\ Len(runs') < Len(runs)
           /\ app.generatedContent = None
           /\ app'.generatedContent # None)
          => app'.history = <<app'.generatedContent[1]>> \o app.history]_vars

\* the same result has been produced twice and history holds it twice
HistoryAppendOnlyWitness ==
    /\ Len(app.history) = 2
    /\ app.history[1] = app.history[2]
    /\ app.generatedContent = Some(app.history[1])


HasPayload(content) ==
    Truthy(content.imageUrl) \/ Truthy(content.text) \/ Truthy(content.videoUrl)

\* C25: every entry of history and the result slot, when it is not null,
\* has an image, a text or a video.
GeneratedContentInvariant ==
    /\ \A k \in 1..Len(app.history) : HasPayload(app.history[k])
    /\ app.generatedContent # None => HasPayload(app.generatedContent[1])

\* history holds a result that is a video alone, and the result on screen
\* has no text
GeneratedContentInvariantWitness ==
    /\ \E k \in 1..Len(app.history) :
          /\ Truthy(app.history[k].videoUrl)
          /\ ~Truthy(app.history[k].imageUrl) /\ ~Truthy(app.history[k].text)
    /\ app.generatedContent # None
    /\ Truthy(app.generatedContent[1].imageUrl) \/ Truthy(app.generatedContent[1].videoUrl)
    /\ ~Truthy(app.generatedContent[1].text)


\* C26: the request of editImage ends with its only text part; with a mask
\* the text is the prompt wrapped in the masked-area instruction, without
\* one it is the prompt as given.
MaskPromptWrapping ==
    (gw.fn = "editImage" /\ gw.pc # "start") =>
        LET texts == SelectSeq(gw.parts, IsTextPart)
        IN /\ Len(texts) = 1
           /\ gw.parts[Len(gw.parts)] = texts[1]
           /\ texts[1].text =
                 IF gw.maskBase64 # <<>>
                 THEN <<"Apply the following instruction only to the masked area of the image: \"">>
                      \o gw.prompt \o <<"\". Preserve the unmasked area.">>
                 ELSE gw.prompt

\* a request with a mask has been sent with the wrapped prompt
MaskPromptWrappingWitness ==
    /\ gw.fn = "editImage" /\ gw.pc = "awaiting"
    /\ gw.maskBase64 = <<"MASK">>
    /\ Len(gw.parts[Len(gw.parts)].text) = Len(gw.prompt) + 2
    /\ gw.imageParts # <<>>


\* C27: in every state, a generate trigger on a transformation that is not
\* a video one starts at most one run, and the run it starts is of the
\* first variant that matches, in the order templated, lookbook,
\* batch-candidate, text-to-image, gallery, two-step, default.
PipelineSelection ==
    (app.selectedTransformation # NULL /\ ~Selected.isVideo) =>
        LET outcome == handleGenerate(app)
            variant ==
                IF Selected.key = "chibiQrCode" THEN "chibiQrCode"
                ELSE IF Selected.key = "outfitStylist" THEN "lookbook"
                ELSE IF Selected.isMultiStepVideo THEN "batch"
                ELSE IF Selected.prompt = CUSTOM /\ ~Truthy(app.primaryImageUrl)
                     THEN "textToImage"
                ELSE IF Selected.maxImages > 0 THEN "gallery"
                ELSE IF Selected.isTwoStep THEN "twoStep"
                ELSE "default"
        IN outcome.run # None =>
              /\ Len(outcome.run) = 1
              /\ outcome.run[1].kind = variant
              /\ outcome.run[1].request.op =
                    CASE variant = "lookbook" -> "generateLookbook"
                      [] variant = "batch" -> "generateImageEditsBatch"
                      [] variant = "textToImage" -> "generateImageFromText"
                      [] OTHER -> "editImage"

\* the batch of candidates of a transformation that also bounds its gallery
\* is in flight
PipelineSelectionWitness ==
    /\ Len(runs) = 1 /\ runs[1].kind = "batch"
    /\ TransformationOf(runs[1].t).maxImages > 0
    /\ runs[1].request.op = "generateImageEditsBatch"
    /\ runs[1].request.count = BatchCount


\* what applyWatermarks can make of the image of a step-1 answer
StepOneOutputs ==
    {applyWatermarks(EditImageSettle(response).content.imageUrl, outcome) :
        response \in {r \in RunResponses("out1") : EditImageSettle(r).ok},
        outcome \in WatermarkOutcomes}

\* C28: a two-step run issues step 2 only in the step in which step 1 has
\* settled, with the stepTwoPrompt, no mask and exactly the watermarked
\* step-1 output followed by the resized secondary image; and the result of
\* a step 2 that succeeds has that same step-1 output as secondaryImageUrl
\* and the primary input as originalImageUrl.
TwoStepDataFlow ==
    [][\A i \in {k \in 1..Len(runs) : runs[k].kind = "twoStep"} :
         /\ (Len(runs') = Len(runs) /\ runs'[i].pc = "awaiting2" /\ runs'[i] # runs[i])
            => /\ runs[i].pc = "awaiting"
               /\ runs'[i].mid \in StepOneOutputs
               /\ runs'[i].request.op = "editImage"
               /\ runs'[i].request.prompt = TransformationOf(runs[i].t).stepTwoPrompt
               /\ runs'[i].request.maskBase64 = <<>>
               /\ runs'[i].request.imageParts
                     = <<ImagePayloadOf(runs'[i].mid),
                         ImagePayloadOf(resizeImageToMatch(runs[i].sec))>>
               /\ runs'[i].orig = runs[i].orig
         /\ \A response \in StepTwoResponses, outcome \in WatermarkOutcomes :
               (/\ runs[i].pc = "awaiting2"
                /\ EditImageSettle(response).ok
                /\ Resume(i, StepTwoCompleted(app, runs[i], EditImageSettle(response),
                                              outcome)))
               => /\ app'.generatedContent # None
                  /\ app'.generatedContent[1].secondaryImageUrl = runs[i].mid
                  /\ app'.generatedContent[1].originalImageUrl = runs[i].orig
                  /\ runs[i].request.imageParts[1] = ImagePayloadOf(runs[i].mid)]_vars

\* a two-step result is on screen: its secondaryImageUrl is the watermarked
\* step-1 output, not the image the user gave
TwoStepDataFlowWitness ==
    /\ app.generatedContent # None /\ runs = <<>>
    /\ app.generatedContent[1].secondaryImageUrl
          = addVisibleWatermark(embedWatermark(DataUrl("image/png", <<"out1">>)))
    /\ app.generatedContent[1].originalImageUrl = app.primaryImageUrl
    /\ Truthy(app.primaryImageUrl)
    /\ app.generatedContent[1].secondaryImageUrl # app.secondaryImageUrl
    /\ Head(app.history) = app.generatedContent[1]


\* the images the program has made and now holds: imageUrl and
\* secondaryImageUrl of the result on screen and of the history entries, the
\* candidate options and the lookbook results
ProducedImages ==
    LET shown == IF app.generatedContent = None THEN {} ELSE {app.generatedContent[1]}
        results == shown \cup Range(app.history)
    IN {url \in {r.imageUrl : r \in results} \cup {r.secondaryImageUrl : r \in results} :
           Truthy(url)}
       \cup (IF app.imageOptions = None THEN {} ELSE Range(app.imageOptions[1]))
       \cup Range(app.generatedLookbookImages)

\* the data of an image that is the mask layer, marked or not
DerivedFromMask(url) == Truthy(url) /\ url[2] # <<>> /\ Head(url[2]) = MaskUrl[2][1]

OrderPersistenceBestEffort ==
    [][/\ app.pc = "mounting" => ENABLED LoadTransformations
       /\ (LoadTransformations /\ ~(app.savedOrder.stored /\ app.savedOrder.parses))
             => /\ app'.pc = "mounted"
                /\ app'.transformations = TRANSFORMATIONS
                /\ app'.error = <<>>
       /\ \A i \in 1..MaxDragIndex, j \in 1..MaxDragIndex :
             (/\ app.pc \in {"mounted", "reordered"}
              /\ i < j
              /\ app' = Reordered(app, i, j, FALSE))
             => /\ app'.transformations = SwapCards(app.transformations, i, j)
                /\ app'.storage = app.storage
                /\ app'.error = <<>>]_vars

\* the stored text did not parse, the catalog order was shown, the user
\* exchanged the first two cards and no save went through
OrderPersistenceBestEffortWitness ==
    /\ app.pc = "reordered"
    /\ app.savedOrder = [stored |-> TRUE, parses |-> FALSE, orderedKeys |-> <<>>]
    /\ app.storage = app.savedOrder
    /\ Len(app.transformations) = Len(TRANSFORMATIONS)
    /\ app.transformations[1] = TRANSFORMATIONS[2]
    /\ app.transformations[2] = TRANSFORMATIONS[1]
    /\ app.error = <<>>


\* the runs of the two video handlers
VideoRuns == {k \in 1..Len(runs) : runs[k].kind \in {"video", "animate"}}

\* C31: a run of the video pipeline notifies "initializing", then "polling",
\* then "fetching": "polling" in the step in which the submission returns,
\* before any wait; "fetching" only once generateVideo has returned a
\* download URL; and a submission that fails notifies neither.
VideoProgressOrdering ==
    [][/\ \A i \in {k \in 1..Len(runs') : runs'[k].kind \in {"video", "animate"}} :
             LET v == runs'[i].v
             IN /\ v.progress = IF v.pc = "submitting" THEN <<MsgVideoInit>>
                                ELSE <<MsgVideoInit, MsgVideoPolling>>
                /\ v.pc = "submitting" => v.waits = 0 /\ v.queries = 0
                /\ runs'[i].pc = "fetching"
                      => /\ v.pc = "returned" /\ Truthy(v.result)
                         /\ runs'[i].request.prompt = v.result
       /\ \A i \in VideoRuns :
             /\ (Len(runs') = Len(runs) /\ runs[i].v.pc = "submitting"
                 /\ runs'[i].v.pc # "submitting")
                   => /\ runs'[i].v.waits = 0
                      /\ app'.loadingMessage
                            = IF runs'[i].pc = "fetching" THEN MsgVideoFetching
                              ELSE MsgVideoPolling
             /\ (Len(runs') = Len(runs) /\ runs[i].pc # "fetching"
                 /\ runs'[i].pc = "fetching")
                   => app'.loadingMessage = MsgVideoFetching
       /\ Len(runs') < Len(runs) =>
             \A i \in {k \in VideoRuns : runs[k].pc = "awaiting"
                                          /\ runs[k].v.pc = "submitting"} :
                \A answer \in {a \in RunVideoAnswers(runs[i].v) : a.throws # None} :
                   Resume(i, VideoAdvanced(app, runs[i], VideoSubmitted(runs[i].v, answer)))
                   => /\ VideoSubmitted(runs[i].v, answer).progress = <<MsgVideoInit>>
                      /\ VideoSubmitted(runs[i].v, answer).pc = "rejected"
                      /\ app'.loadingMessage \notin {MsgVideoPolling, MsgVideoFetching}]_vars

\* a video run that waited for its job is fetching the download URL, all
\* three notifications given
VideoProgressOrderingWitness ==
    \E i \in VideoRuns :
        /\ runs[i].pc = "fetching"
        /\ runs[i].v.waits >= 1
        /\ runs[i].v.progress = <<MsgVideoInit, MsgVideoPolling>>
        /\ app.loadingMessage = MsgVideoFetching


\* C32: only the run of the default single/dual-image branch carries a mask
\* to editImage, and it is the mask of the trigger with the primary image of
\* the trigger as first part; every step that changes the primary image,
\* and every reset, leaves the mask layer null.
MaskScope ==
    [][/\ \A i \in 1..Len(runs') :
             runs'[i].request.maskBase64 # <<>>
                => /\ runs'[i].kind = "default"
                   /\ runs'[i].request.op = "editImage"
                   /\ runs'[i].request.imageParts[1] = ImagePayloadOf(runs'[i].orig)
       /\ Len(runs') > Len(runs)
             => LET run == runs'[Len(runs')]
                IN IF run.kind = "default"
                   THEN /\ run.orig = app.primaryImageUrl
                        /\ run.request.maskBase64
                              = IF Truthy(app.maskDataUrl) THEN app.maskDataUrl[2] ELSE <<>>
                   ELSE run.request.maskBase64 = <<>>
       /\ app'.primaryImageUrl # app.primaryImageUrl => app'.maskDataUrl = NoUrl
       /\ app'.maskDataUrl # NoUrl
             => ~(PrimaryImageSelect \/ ClearPrimaryImage \/ ResetApp)
       /\ Truthy(app'.maskDataUrl) => Truthy(app'.primaryImageUrl)]_vars

\* a result was taken as the new primary image, a mask drawn on it, and the
\* default branch has sent that mask with that image
MaskScopeWitness ==
    \E i \in 1..Len(runs) :
        /\ runs[i].kind = "default"
        /\ runs[i].request.maskBase64 = MaskUrl[2]
        /\ runs[i].orig # ImgA
        /\ runs[i].request.imageParts = <<ImagePayloadOf(runs[i].orig)>>
        /\ \E k \in 1..Len(app.history) : app.history[k].imageUrl = runs[i].orig


\* the inputs of the form
FormInputs(a) ==
    <<a.selectedTransformation, a.primaryImageUrl, a.secondaryImageUrl, a.multiImageUrls,
      a.maskDataUrl, a.customPrompt, a.bankName, a.accountName, a.accountNumber, a.branch>>

\* the primary input of a run launched from a: the first image of the grid
\* for the gallery and batch branches, the chosen candidate for the
\* animation, none for text-to-image, the primary image otherwise
PrimaryInputOf(a, kind) ==
    CASE kind \in {"gallery", "batch"} -> a.multiImageUrls[1]
      [] kind = "animate" -> a.selectedOption
      [] kind = "textToImage" -> NoUrl
      [] OTHER -> a.primaryImageUrl

\* C33: a run holds the inputs of its trigger: the transformation and the
\* primary and secondary input it was launched with stay with it whatever
\* the form becomes, a change of the form leaves every run and its pending
\* gateway call as they are, step 2 of the two-step branch is built from
\* the secondary image and the transformation of the trigger, and the
\* originalImageUrl of the result is the primary input of the trigger.
RequestSnapshot ==
    [][/\ Len(runs') > Len(runs)
             => LET run == runs'[Len(runs')]
                IN /\ run.t = app.selectedTransformation
                   /\ run.orig = PrimaryInputOf(app, run.kind)
                   /\ run.kind \in {"twoStep", "default", "chibiQrCode"}
                         => run.sec = app.secondaryImageUrl
       /\ FormInputs(app') # FormInputs(app) => runs' = runs
       /\ Len(runs') = Len(runs)
             => \A i \in 1..Len(runs) :
                   /\ runs'[i].t = runs[i].t /\ runs'[i].kind = runs[i].kind
                   /\ runs'[i].orig = runs[i].orig /\ runs'[i].sec = runs[i].sec
                   /\ (runs'[i].pc = "awaiting2" /\ runs[i].pc = "awaiting")
                         => /\ runs'[i].request.prompt
                                  = TransformationOf(runs[i].t).stepTwoPrompt
                            /\ runs'[i].request.imageParts[2]
                                  = ImagePayloadOf(resizeImageToMatch(runs[i].sec))
                   /\ runs'[i].request # runs[i].request
                         => runs'[i].pc \in {"awaiting2", "fetching"}
       /\ Len(app'.history) > Len(app.history)
             => \E i \in 1..Len(runs) :
                   /\ runs' = RemoveAt(runs, i)
                   /\ Head(app'.history).originalImageUrl = runs[i].orig]_vars

\* step 1 of a two-step run has settled after a reset emptied the form:
\* step 2 is in flight with the secondary image of the trigger
RequestSnapshotWitness ==
    \E i \in 1..Len(runs) :
        /\ runs[i].kind = "twoStep" /\ runs[i].pc = "awaiting2"
        /\ app.secondaryImageUrl = NoUrl /\ app.primaryImageUrl = NoUrl
        /\ app.selectedTransformation = NULL
        /\ runs[i].request.imageParts[2] = ImagePayloadOf(resizeImageToMatch(ImgB))
        /\ runs[i].orig = ImgA


\* C34: no step cancels an invocation in flight: a launch adds its run
\* behind the others, a reset or any other change of the form leaves the
\* runs as they are, and a run leaves only by its own completion; a
\* completion that brings a result prepends it to history and puts it in
\* the result slot, whichever of the runs in flight it is.
LastWriteWins ==
    [][/\ Len(runs') > Len(runs) => SubSeq(runs', 1, Len(runs)) = runs
       /\ Len(runs') = Len(runs)
             => \A i \in 1..Len(runs) :
                   runs'[i] # runs[i]
                      => /\ \A k \in 1..Len(runs) \ {i} : runs'[k] = runs[k]
                         /\ runs'[i].kind = runs[i].kind
                         /\ \/ runs'[i].pc \in {"awaiting2", "fetching"}
                               /\ runs'[i].pc # runs[i].pc
                            \/ runs'[i].v # runs[i].v /\ runs'[i].pc = runs[i].pc
       /\ Len(runs') < Len(runs)
             => /\ \E i \in 1..Len(runs) : runs' = RemoveAt(runs, i)
                /\ ~app'.isLoading
       /\ (app.isLoading /\ ~app'.isLoading /\ Len(runs') = Len(runs)) => runs' = runs
       /\ Len(app'.history) > Len(app.history)
             => /\ Tail(app'.history) = app.history
                /\ app'.generatedContent = Some(Head(app'.history))
                /\ Len(runs') = Len(runs) - 1]_vars

\* two invocations overlapped after a reset: one has delivered its result,
\* which is on screen and at the head of history with the spinner off, and
\* the other is still in flight
LastWriteWinsWitness ==
    /\ Len(runs) = 1 /\ runs[1].kind \in {"default", "textToImage"}
    /\ ~app.isLoading
    /\ app.generatedContent # None
    /\ Len(app.history) = 1 /\ Head(app.history) = app.generatedContent[1]


\* C35: while the loading flag is set, an invocation is in flight.
NoStuckSpinner == app.isLoading => runs # <<>>

\* the spinner is on for the second of two invocations in flight
NoStuckSpinnerWitness ==
    /\ app.isLoading
    /\ Len(runs) = 2


\* a status answer that says the job is not done, with or without an error
NotDoneAnswers ==
    {[throws |-> None, done |-> FALSE, error |-> e, uri |-> <<>>] :
        e \in {None, Some(<<"Quota exceeded for video">>), Some(<<>>)}}

\* however often the loop has waited, an answer with done=false sends it to
\* the next wait, error status or not
PollLoopHasNoLimit ==
    \A i \in {k \in VideoRuns : runs[k].v.pc = "querying"} :
        \A answer \in NotDoneAnswers, waited \in 1..(MaxPolls + MaxRunPolls + 1) :
            LET v == [runs[i].v EXCEPT !.waits = waited, !.queries = waited - 1]
            IN /\ VideoQueried(v, answer).pc = "waiting"
               /\ VideoAdvanced(app, runs[i], VideoQueried(v, answer)).run # None

\* C36: when every call in flight settles and the video job reports done,
\* every invocation in flight finishes and the loading flag goes off for
\* good; and the poll loop itself sets no limit: at any number of waits an
\* answer with done=false, error status or not, keeps the run in flight.
GenerationTerminates ==
    /\ <>[](runs = <<>> /\ ~app.isLoading)
    /\ []PollLoopHasNoLimit

\* a video invocation has finished: its video is at the head of history,
\* nothing is in flight and the spinner is off
GenerationTerminatesWitness ==
    /\ runs = <<>> /\ ~app.isLoading
    /\ app.history # <<>>
    /\ Truthy(Head(app.history).videoUrl)
    /\ app.loadingMessage = <<>>


\* C37: whenever the loading flag is off, a non-null selected candidate is
\* one of the candidate options on hand.
CandidateSelectionConsistency ==
    (~app.isLoading /\ Truthy(app.selectedOption))
       => /\ app.imageOptions # None
          /\ app.selectedOption \in Range(app.imageOptions[1])

\* C38: once an animation has passed its validation the candidate options
\* are null for as long as it is in flight and in the state in which it
\* finishes, and when it finishes, with a video or with an error, the
\* selected candidate is null.
AnimateConsumesCandidates ==
    [][/\ (\E i \in 1..Len(runs') : runs'[i].kind = "animate")
             => app'.imageOptions = None
       /\ (Len(runs') < Len(runs)
           /\ \E i \in 1..Len(runs) : runs[i].kind = "animate" /\ runs' = RemoveAt(runs, i))
             => /\ app'.imageOptions = None
                /\ app'.selectedOption = NoUrl]_vars

\* C39: for every saved order that is read, one that lists a key more than
\* once included, the display order holds each key of the catalog exactly
\* once.
DisplayOrderNoDuplicates ==
    (app.pc = "mounted" /\ app.savedOrder.stored /\ app.savedOrder.parses) =>
        LET R == KeysOf(app.transformations)
        IN \A k \in Keys : Cardinality({i \in 1..Len(R) : R[i] = k}) = 1

=============================================================================
